---- MODULE Spec2Model ----
(***************************************************************************)
(* Model of fungraph: the graph executor (fungraph/src/node/node.rs),      *)
(* the tool-calling agent loop (fungraph/src/agent/mod.rs) and the         *)
(* response streams of the Gemini provider (fungraph_llm/src/gemini/llm.rs)*)
(***************************************************************************)
EXTENDS Integers, Sequences, FiniteSets, TLC

(***************************************************************************)
(* Bounds                                                                  *)
(***************************************************************************)
MaxNodes == 3
MaxEdges == 3
MaxCount == 3
MaxSteps == 6
MaxChain == 3
MaxScript == 3
MaxEvents == 3
MaxPolls == 5
MaxMessages == 2

(***************************************************************************)
(* Graph executor: state                                                   *)
(*   nodes          the node arena of petgraph's Graph; NodeIndex i is the *)
(*                  position i of the sequence                             *)
(*   edges          the edge arena, in the order the edges were added      *)
(*   gpc            position of the caller: building the graph, inside     *)
(*                  run (node.run awaited / edge scan), returned, panicked *)
(*   input_state    the argument `state` of run                            *)
(*   current_node, current_state   the locals of run                       *)
(*   ran            history: node indices in the order node.run was called *)
(*   left           history: the state each of those runs left behind      *)
(*   took           history: the edge index taken after each node (0 when  *)
(*                  no edge was taken)                                     *)
(*   examined       history: edge indices the last scan looked at, in order*)
(***************************************************************************)
VARIABLES nodes, edges, gpc, input_state, current_node, current_state,
          ran, left, took, examined

gvars == <<nodes, edges, gpc, input_state, current_node, current_state,
           ran, left, took, examined>>

(***************************************************************************)
(* Agent loop: state                                                       *)
(*   builder_system_prompt, tools   fields of LLMAgentBuilder; tools moves *)
(*                  into the LLMAgent at build                             *)
(*   system_prompt  field of LLMAgent ("none" is None)                     *)
(*   script         the provider: its i-th answer to llm.invoke            *)
(*   apc            position of the caller: using the builder, agent built,*)
(*                  inside chat/invoke at one of the awaits, returned      *)
(*   op             which of chat / invoke is running                      *)
(*   user_input     the argument of chat / invoke (as a message list)      *)
(*   messages       the local `messages` of chat / invoke                  *)
(*   conversations  the local `conversations`                              *)
(*   final_answer   the local `final_answer` of invoke                     *)
(*   sent           history: the requests the provider received, in order  *)
(*   tool_invocations  history: the tool calls made, [name, arguments]     *)
(*   tool_results   history: what each tool call returned                  *)
(***************************************************************************)
VARIABLES builder_system_prompt, tools, system_prompt, script, apc, op,
          user_input, messages, conversations, final_answer, sent,
          tool_invocations, tool_results

avars == <<builder_system_prompt, tools, system_prompt, script, apc, op,
           user_input, messages, conversations, final_answer, sent,
           tool_invocations, tool_results>>

(***************************************************************************)
(* Response streams: state                                                 *)
(*   s_kind         which stream the caller holds: the ChatStream that     *)
(*                  invoke_stream returns, the receiver of stream(), or    *)
(*                  that receiver inside invoke_stream_one_result          *)
(*   events         the event source: what it delivers, in order; it       *)
(*                  reports its end (None) after the last one              *)
(*   es_next        position of the event source in events                 *)
(*   es_closed      event_source.close() was called, or the event source   *)
(*                  was dropped                                            *)
(*   task           the task stream() spawns: running / finished           *)
(*   channel        the unbounded channel between the task and the receiver*)
(*   rx_dropped     the caller dropped its stream                          *)
(*   spc            position of the caller: polling, parked, panicked, or  *)
(*                  returned from invoke_stream_one_result                 *)
(*   yielded        history: what each poll of the caller returned         *)
(*   generation     the local `generation` of invoke_stream_one_result     *)
(***************************************************************************)
VARIABLES s_kind, events, es_next, es_closed, task, channel, rx_dropped,
          spc, yielded, generation

svars == <<s_kind, events, es_next, es_closed, task, channel, rx_dropped,
           spc, yielded, generation>>

(***************************************************************************)
(* Gemini provider: state                                                  *)
(*   call_messages  the Messages value handed to generate / invoke_stream  *)
(*   http_response  what the server answers to the posted request          *)
(*   gemini_request the GeminiRequest that was built and posted            *)
(*   llm_result     what generate returned                                 *)
(*   lpc            position of the caller: ready, awaiting the response,  *)
(*                  returned, panicked, or holding a stream                *)
(***************************************************************************)
VARIABLES call_messages, http_response, gemini_request, llm_result, lpc

pvars == <<call_messages, http_response, gemini_request, llm_result, lpc>>

(***************************************************************************)
(* Action stream of an agent: state                                        *)
(*   start_messages    the Messages value handed to LLMAgent::start        *)
(*   provider_response the text the provider answers a request with        *)
(*   next_action       AgentStream::next_action, <<>> for None             *)
(*   stream_actions    the items the AgentStream yielded so far            *)
(*   tpc               position of the caller: ready (agent built) or      *)
(*                     started (holding the AgentStream)                   *)
(***************************************************************************)
VARIABLES start_messages, provider_response, next_action, stream_actions, tpc

tvars ==
    <<start_messages, provider_response, next_action, stream_actions, tpc>>

vars == <<gvars, avars, svars, pvars, tvars>>

(***************************************************************************)
(* Messages (fungraph_llm/src/messages.rs).  "none" stands for None.       *)
(***************************************************************************)
Message(type, content, id, tool_calls) ==
    [message_type |-> type, content |-> content, id |-> id,
     tool_calls |-> tool_calls]

new_human_message(content) == Message("human", content, "none", <<>>)

new_system_message(content) == Message("system", content, "none", <<>>)

new_ai_message(content) == Message("ai", content, "none", <<>>)

new_tool_message(content, id) == Message("tool", content, id, <<>>)

NoMessage == Message("none", "none", "none", <<>>)

NoMessages == [messages |-> <<>>, tools |-> <<>>]

\* No agent exists: the values the agent's variables have while only the
\* graph executor is in use.
AgentIdle ==
    /\ builder_system_prompt = "none"
    /\ tools = {}
    /\ system_prompt = "none"
    /\ script = <<>>
    /\ apc = "idle"
    /\ op = "none"
    /\ user_input = <<>>
    /\ messages = NoMessages
    /\ conversations = <<>>
    /\ final_answer = ""
    /\ sent = <<>>
    /\ tool_invocations = <<>>
    /\ tool_results = <<>>

\* No stream exists (the graph and agent specifications).
StreamIdle ==
    /\ s_kind = "none"
    /\ events = <<>>
    /\ es_next = 1
    /\ es_closed = FALSE
    /\ task = "none"
    /\ channel = <<>>
    /\ rx_dropped = FALSE
    /\ spc = "none"
    /\ yielded = <<>>
    /\ generation = <<>>

\* The body of a response: JSON of a GeminiResponse with its choices, or
\* text that is not such JSON.
ResponseBody(json, choices) == [json |-> json, choices |-> choices]

\* No provider call is under way (the graph, agent and stream
\* specifications).
NoRequest ==
    [messages |-> <<>>, model |-> "none", stream |-> <<>>, tools |-> <<>>,
     tool_choice |-> <<>>]

\* Result<LLMResult, LLMError> of generate, or its panic.
GeminiResult(kind, text, id, name, arguments, tool_calls) ==
    [kind |-> kind, generation |-> text, id |-> id, name |-> name,
     arguments |-> arguments, tool_calls |-> tool_calls]

NoResult == GeminiResult("none", "", "", "", <<>>, <<>>)

GeminiIdle ==
    /\ call_messages = NoMessages
    /\ http_response \in
         {[sent |-> FALSE, status |-> 0,
           body |-> ResponseBody("invalid", <<>>)]}
    /\ gemini_request = NoRequest
    /\ llm_result = NoResult
    /\ lpc = "none"

\* No agent was started (the graph, agent, stream and provider
\* specifications).
AgentStreamIdle ==
    /\ start_messages = NoMessages
    /\ provider_response = "none"
    /\ next_action = <<>>
    /\ stream_actions = <<>>
    /\ tpc = "none"

\* Node behaviours.  StartFunNode and EndFunNode have an empty run body.  A
\* SetValueNode is a user node in the manner of scenario A: it sets
\* state.value to "x" and counts its visits; a ClearValueNode is a user node
\* that sets state.value back to "".
NodeKinds == {"StartFunNode", "EndFunNode", "SetValueNode", "ClearValueNode"}

\* The node behaviours add_node is tried with in the unrestricted graphs.
AddedKinds == {"StartFunNode", "SetValueNode"}

\* Predicates usable as fn(&S) -> bool on conditional edges.
AllConditions == {"count_lt_2", "count_ge_2", "always_true", "always_false"}

\* The predicates add_edge_with_condition is tried with in the unrestricted
\* graphs.
Conditions == {"count_ge_2"}

InputStates == {[value |-> "", count |-> 0], [value |-> "", count |-> 1]}

NoState == [value |-> "", count |-> 0]

\* FunNode::run for each node behaviour.
NodeRun(kind, s) ==
    CASE kind = "SetValueNode" ->
             [value |-> "x",
              count |-> IF s.count < MaxCount THEN s.count + 1 ELSE s.count]
      [] kind = "ClearValueNode" -> [s EXCEPT !.value = ""]
      [] OTHER -> s

\* condition(&current_state)
Holds(c, s) ==
    CASE c = "count_lt_2"   -> s.count < 2
      [] c = "count_ge_2"   -> s.count >= 2
      [] c = "always_true"  -> TRUE
      [] OTHER              -> FALSE

(***************************************************************************)
(* petgraph Graph as used by FunGraph.  Graph::add_edge pushes the edge on *)
(* the edge arena and links it at the HEAD of the source node's outgoing   *)
(* list (edge.next = [an.next[0], bn.next[1]]; an.next[0] = edge_idx), and *)
(* Graph::edges(a) walks that list from the head: the outgoing edges of a  *)
(* node come out newest first.                                             *)
(***************************************************************************)
NodeIndices == 1..Len(nodes)

Incoming(n) == {i \in 1..Len(edges) : edges[i].target = n}

Outgoing(n) == {i \in 1..Len(edges) : edges[i].source = n}

RECURSIVE EdgesFrom(_, _)
EdgesFrom(n, i) ==
    IF i = 0 THEN <<>>
    ELSE IF edges[i].source = n
         THEN <<i>> \o EdgesFrom(n, i - 1)
         ELSE EdgesFrom(n, i - 1)

\* self.graph.edges(current_node)
Edges(n) == EdgesFrom(n, Len(edges))

\* The nodes get_begin_node / get_end_node filter for.
BeginIndices == {n \in NodeIndices : Cardinality(Incoming(n)) = 0}

EndIndices == {n \in NodeIndices : Cardinality(Outgoing(n)) = 0}

\* Scan variant: when no edge can be taken, fall through to the edge examined
\* last instead of staying.
RECURSIVE ScanFallback(_, _, _)
ScanFallback(es, s, seen) ==
    IF es = <<>>
    THEN [taken |-> IF seen = <<>> THEN 0 ELSE seen[Len(seen)],
          examined |-> seen]
    ELSE LET e == edges[Head(es)]
         IN  IF e.type = "Edge" \/ Holds(e.condition, s)
             THEN [taken |-> Head(es), examined |-> Append(seen, Head(es))]
             ELSE ScanFallback(Tail(es), s, Append(seen, Head(es)))

\* Scan variant: the first edge of the iteration is taken whatever its
\* predicate says.
ScanFirstEdge(es, s, seen) ==
    IF es = <<>> THEN [taken |-> 0, examined |-> seen]
    ELSE [taken |-> Head(es), examined |-> Append(seen, Head(es))]

\* The while-let loop of run: the first edge of the iteration that is an Edge
\* or a ConditionalEdge whose condition holds on s stops the scan.
RECURSIVE Scan(_, _, _)
Scan(es, s, seen) ==
    IF es = <<>> THEN [taken |-> 0, examined |-> seen]
    ELSE LET e == edges[Head(es)]
         IN  IF e.type = "Edge"
             THEN [taken |-> Head(es), examined |-> Append(seen, Head(es))]
             ELSE IF Holds(e.condition, s)
                  THEN [taken |-> Head(es), examined |-> Append(seen, Head(es))]
                  ELSE Scan(Tail(es), s, Append(seen, Head(es)))

(***************************************************************************)
(* Graph executor: operations                                              *)
(***************************************************************************)
\* FunGraph::new(): Graph::new(), an empty arena.
GraphNew ==
    /\ nodes = <<>>
    /\ edges = <<>>
    /\ gpc = "build"
    /\ input_state = NoState
    /\ current_node = 0
    /\ current_state = NoState
    /\ ran = <<>>
    /\ left = <<>>
    /\ took = <<>>
    /\ examined = <<>>

GraphInit ==
    GraphNew /\ AgentIdle /\ StreamIdle /\ GeminiIdle /\ AgentStreamIdle

add_node(kind) ==
    /\ gpc = "build"
    /\ Len(nodes) < MaxNodes
    /\ nodes' = Append(nodes, kind)
    /\ UNCHANGED <<edges, gpc, input_state, current_node, current_state,
                   ran, left, took, examined>>
    /\ UNCHANGED <<avars, svars, pvars, tvars>>

add_edge(from, to) ==
    /\ gpc = "build"
    /\ Len(edges) < MaxEdges
    /\ edges' = Append(edges, [source |-> from, target |-> to,
                               type |-> "Edge", condition |-> "-"])
    /\ UNCHANGED <<nodes, gpc, input_state, current_node, current_state,
                   ran, left, took, examined>>
    /\ UNCHANGED <<avars, svars, pvars, tvars>>

add_edge_with_condition(from, to, condition) ==
    /\ gpc = "build"
    /\ Len(edges) < MaxEdges
    /\ edges' = Append(edges, [source |-> from, target |-> to,
                               type |-> "ConditionalEdge",
                               condition |-> condition])
    /\ UNCHANGED <<nodes, gpc, input_state, current_node, current_state,
                   ran, left, took, examined>>
    /\ UNCHANGED <<avars, svars, pvars, tvars>>

\* run variant: get_end_node (whose result run never uses) is not called.
run_without_end_check(state) ==
    /\ gpc = "build"
    /\ input_state' = state
    /\ IF Cardinality(BeginIndices) = 1
       THEN /\ gpc' = "node_run"
            /\ current_node' = CHOOSE n \in BeginIndices : TRUE
            /\ current_state' = state
       ELSE /\ gpc' = "panicked"
            /\ UNCHANGED <<current_node, current_state>>
    /\ UNCHANGED <<nodes, edges, ran, left, took, examined>>
    /\ UNCHANGED <<avars, svars, pvars, tvars>>

\* run variant: the walk starts from a default state instead of the argument.
run_from_default_state(state) ==
    /\ gpc = "build"
    /\ input_state' = state
    /\ IF Cardinality(BeginIndices) = 1 /\ Cardinality(EndIndices) = 1
       THEN /\ gpc' = "node_run"
            /\ current_node' = CHOOSE n \in BeginIndices : TRUE
            /\ current_state' = NoState
       ELSE /\ gpc' = "panicked"
            /\ UNCHANGED <<current_node, current_state>>
    /\ UNCHANGED <<nodes, edges, ran, left, took, examined>>
    /\ UNCHANGED <<avars, svars, pvars, tvars>>

\* run variant: get_end_node accepts any number of end nodes but zero.
run_accepting_several_ends(state) ==
    /\ gpc = "build"
    /\ input_state' = state
    /\ IF Cardinality(BeginIndices) = 1 /\ Cardinality(EndIndices) >= 1
       THEN /\ gpc' = "node_run"
            /\ current_node' = CHOOSE n \in BeginIndices : TRUE
            /\ current_state' = state
       ELSE /\ gpc' = "panicked"
            /\ UNCHANGED <<current_node, current_state>>
    /\ UNCHANGED <<nodes, edges, ran, left, took, examined>>
    /\ UNCHANGED <<avars, svars, pvars, tvars>>

\* run, up to the first node.run: get_begin_node and get_end_node panic
\* unless exactly one node qualifies.
run(state) ==
    /\ gpc = "build"
    /\ input_state' = state
    /\ IF Cardinality(BeginIndices) = 1 /\ Cardinality(EndIndices) = 1
       THEN /\ gpc' = "node_run"
            /\ current_node' = CHOOSE n \in BeginIndices : TRUE
            /\ current_state' = state
       ELSE /\ gpc' = "panicked"
            /\ UNCHANGED <<current_node, current_state>>
    /\ UNCHANGED <<nodes, edges, ran, left, took, examined>>
    /\ UNCHANGED <<avars, svars, pvars, tvars>>

\* node_run variant: every node is handed the state run was called with.
node_run_on_input_state ==
    /\ gpc = "node_run"
    /\ Len(ran) < MaxSteps
    /\ current_state' = NodeRun(nodes[current_node], input_state)
    /\ ran' = Append(ran, current_node)
    /\ left' = Append(left, current_state')
    /\ gpc' = "scan"
    /\ UNCHANGED <<nodes, edges, input_state, current_node, took, examined>>
    /\ UNCHANGED <<avars, svars, pvars, tvars>>

\* node.run(&mut current_state).await
node_run ==
    /\ gpc = "node_run"
    /\ Len(ran) < MaxSteps
    /\ current_state' = NodeRun(nodes[current_node], current_state)
    /\ ran' = Append(ran, current_node)
    /\ left' = Append(left, current_state')
    /\ gpc' = "scan"
    /\ UNCHANGED <<nodes, edges, input_state, current_node, took, examined>>
    /\ UNCHANGED <<avars, svars, pvars, tvars>>

\* ScanState variant: the predicates see the state run was called with.
ScanStateInput == input_state

\* The state the predicates are applied to: condition(&current_state).
ScanState == current_state

\* scan_edges variant: the loop is not left when next_node == current_node.
scan_edges_without_break ==
    /\ gpc = "scan"
    /\ LET r == Scan(Edges(current_node), ScanState, <<>>)
           next_node == IF r.taken = 0 THEN current_node
                        ELSE edges[r.taken].target
       IN  /\ examined' = r.examined
           /\ took' = Append(took, r.taken)
           /\ current_node' = next_node
           /\ gpc' = "node_run"
    /\ UNCHANGED <<nodes, edges, input_state, current_state, ran, left>>
    /\ UNCHANGED <<avars, svars, pvars, tvars>>

\* scan_edges variant: the loop is left only when no edge was taken; an edge
\* back to the node itself is followed.
scan_edges_following_self_loop ==
    /\ gpc = "scan"
    /\ LET r == Scan(Edges(current_node), ScanState, <<>>)
           next_node == IF r.taken = 0 THEN current_node
                        ELSE edges[r.taken].target
       IN  /\ examined' = r.examined
           /\ took' = Append(took, r.taken)
           /\ current_node' = next_node
           /\ gpc' = IF r.taken = 0 THEN "done" ELSE "node_run"
    /\ UNCHANGED <<nodes, edges, input_state, current_state, ran, left>>
    /\ UNCHANGED <<avars, svars, pvars, tvars>>

\* The rest of the loop body: scan the outgoing edges, then either break and
\* return current_state or move to next_node.
scan_edges ==
    /\ gpc = "scan"
    /\ LET r == Scan(Edges(current_node), ScanState, <<>>)
           next_node == IF r.taken = 0 THEN current_node
                        ELSE edges[r.taken].target
       IN  /\ examined' = r.examined
           /\ took' = Append(took, r.taken)
           /\ current_node' = next_node
           /\ gpc' = IF next_node = current_node THEN "done" ELSE "node_run"
    /\ UNCHANGED <<nodes, edges, input_state, current_state, ran, left>>
    /\ UNCHANGED <<avars, svars, pvars, tvars>>

GraphNext ==
    \/ \E kind \in AddedKinds : add_node(kind)
    \/ \E from \in NodeIndices, to \in NodeIndices : add_edge(from, to)
    \/ \E from \in NodeIndices, to \in NodeIndices, c \in Conditions :
           add_edge_with_condition(from, to, c)
    \/ \E state \in InputStates : run(state)
    \/ node_run
    \/ scan_edges

Spec == GraphInit /\ [][GraphNext]_vars

(***************************************************************************)
(* The graphs of the repository's scenarios, built by the same calls:      *)
(* test_loop_graph's {start -> A, A -(p1)-> B, B -> A, A -(p2)-> end} and  *)
(* the chains start -> A1 -> ... -> Ak -> end.                             *)
(***************************************************************************)
ScenarioKinds == {"StartFunNode", "SetValueNode", "ClearValueNode"}

PlainEdge(from, to) ==
    [source |-> from, target |-> to, type |-> "Edge", condition |-> "-"]

ConditionalEdge(from, to, c) ==
    [source |-> from, target |-> to, type |-> "ConditionalEdge",
     condition |-> c]

LoopGraph(kA, kB, p1, p2) ==
    [nodes |-> <<"StartFunNode", kA, kB, "EndFunNode">>,
     edges |-> <<PlainEdge(1, 2), ConditionalEdge(2, 3, p1),
                 PlainEdge(3, 2), ConditionalEdge(2, 4, p2)>>]

ChainGraph(ks) ==
    [nodes |-> <<"StartFunNode">> \o ks \o <<"EndFunNode">>,
     edges |-> [i \in 1..(Len(ks) + 1) |-> PlainEdge(i, i + 1)]]

LoopGraphs ==
    {LoopGraph(kA, kB, p1, p2) :
        kA \in ScenarioKinds, kB \in ScenarioKinds,
        p1 \in AllConditions, p2 \in AllConditions}

ChainGraphs ==
    {ChainGraph(ks) :
        ks \in UNION {[1..k -> ScenarioKinds] : k \in 1..MaxChain}}

ScenarioInit ==
    /\ \E g \in LoopGraphs \cup ChainGraphs :
           /\ nodes = g.nodes
           /\ edges = g.edges
    /\ gpc = "build"
    /\ input_state = NoState
    /\ current_node = 0
    /\ current_state = NoState
    /\ ran = <<>>
    /\ left = <<>>
    /\ took = <<>>
    /\ examined = <<>>
    /\ AgentIdle
    /\ StreamIdle
    /\ GeminiIdle
    /\ AgentStreamIdle

ScenarioNext ==
    \/ \E state \in InputStates : run(state)
    \/ node_run
    \/ scan_edges

ScenarioSpec == ScenarioInit /\ [][ScenarioNext]_vars

(***************************************************************************)
(* Agent loop (fungraph/src/agent/mod.rs)                                  *)
(***************************************************************************)
Prompts == {"be kind"}

UserTexts == {"weather in tokyo?"}

ToolNames == {"get_weather", "get_time"}

\* LLMResult::Generate(GenerateResult)
GenerateResult(text) ==
    [kind |-> "Generate", generation |-> text, id |-> "none",
     name |-> "none", arguments |-> "none", ai_message |-> NoMessage]

\* LLMResult::ToolCall(ToolCallResult) as Gemini::generate builds it: the
\* synthetic assistant message says "tool called" and carries the tool calls.
ToolCallResult(id, name, arguments) ==
    [kind |-> "ToolCall", generation |-> "", id |-> id, name |-> name,
     arguments |-> arguments,
     ai_message |-> Message("ai", "tool called", "none",
                            <<[id |-> id, name |-> name,
                               arguments |-> arguments]>>)]

\* Err(LLMError)
LLMErr ==
    [kind |-> "Err", generation |-> "", id |-> "none", name |-> "none",
     arguments |-> "none", ai_message |-> NoMessage]

Responses ==
    {GenerateResult("sunny"),
     ToolCallResult("call_abc123", "get_weather", "tokyo"),
     ToolCallResult("call_def456", "get_time", "now"),
     LLMErr}

\* What FunTool::call returns: Ok(String) or Err.
ToolOutcomes == {[ok |-> TRUE, value |-> "25 degrees"],
                 [ok |-> FALSE, value |-> ""]}

\* The inputs of invoke: a Messages value holding a history.
InvokeInputs ==
    {[messages |-> <<new_human_message(u)>>, tools |-> <<>>] :
        u \in UserTexts}
    \cup
    {[messages |-> <<new_human_message(u), new_ai_message("earlier answer"),
                     new_human_message(u)>>,
      tools |-> <<>>] : u \in UserTexts}

\* FunTool::to_openai_tool: the schema advertised for a tool.
to_openai_tool(name) == [type |-> "function", name |-> name]

\* The orders in which self.tools.iter() (a HashMap) may yield the tools.
Orderings(S) ==
    {f \in [1..Cardinality(S) -> S] :
        \A i \in 1..Cardinality(S), j \in 1..Cardinality(S) :
            i # j => f[i] # f[j]}

\* add_message variant: the rebuilt request loses its tool schemas.
add_message_dropping_tools(ms, message) ==
    [messages |-> Append(ms.messages, message), tools |-> <<>>]

\* Messages::add_message
add_message(ms, message) ==
    [ms EXCEPT !.messages = Append(ms.messages, message)]

\* MessagesBuilder::add_message, called once per message of the history.
MessagesBuilder_add_messages(built, history) == built \o history

\* build_messages variant: the system message is put after the user's text.
build_messages_system_last(message, order) ==
    [messages |-> <<new_human_message(message)>>
                  \o (IF system_prompt # "none"
                      THEN <<new_system_message(system_prompt)>> ELSE <<>>),
     tools |-> [i \in 1..Len(order) |-> to_openai_tool(order[i])]]

\* LLMAgent::build_messages
build_messages(message, order) ==
    [messages |-> (IF system_prompt # "none"
                   THEN <<new_system_message(system_prompt)>> ELSE <<>>)
                  \o <<new_human_message(message)>>,
     tools |-> [i \in 1..Len(order) |-> to_openai_tool(order[i])]]

\* build_messages2 variant: the system message follows the history.
build_messages2_system_last(ms, order) ==
    [messages |-> MessagesBuilder_add_messages(
                      ms.messages,
                      IF system_prompt # "none"
                      THEN <<new_system_message(system_prompt)>> ELSE <<>>),
     tools |-> [i \in 1..Len(order) |-> to_openai_tool(order[i])]]

\* LLMAgent::build_messages2
build_messages2(ms, order) ==
    [messages |-> MessagesBuilder_add_messages(
                      IF system_prompt # "none"
                      THEN <<new_system_message(system_prompt)>> ELSE <<>>,
                      ms.messages),
     tools |-> [i \in 1..Len(order) |-> to_openai_tool(order[i])]]

\* ToolMessageFor variant: the tool message is correlated by the tool's name.
ToolMessageByName(result, tool_call_result) ==
    new_tool_message(result, tool_call_result.name)

\* Message::new_tool_message(result?, &tool_call_result.id.to_string())
ToolMessageFor(result, tool_call_result) ==
    new_tool_message(result, tool_call_result.id)

\* target_tool variant: every tool name the provider asks for is found.
target_tool_any(name) == name

\* self.tools.get(&tool_call_result.name): the tool registered under the name
\* ("none" for None).
target_tool(name) == IF name \in tools THEN name ELSE "none"

\* The agent's variables before LLMAgent::builder(llm) is used; the provider
\* behind llm is any script of answers.
AgentInit ==
    /\ builder_system_prompt = "none"
    /\ tools = {}
    /\ system_prompt = "none"
    /\ script \in [1..MaxScript -> Responses]
    /\ apc = "builder"
    /\ op = "none"
    /\ user_input = <<>>
    /\ messages = NoMessages
    /\ conversations = <<>>
    /\ final_answer = ""
    /\ sent = <<>>
    /\ tool_invocations = <<>>
    /\ tool_results = <<>>
    /\ GraphNew
    /\ StreamIdle
    /\ GeminiIdle
    /\ AgentStreamIdle

with_system_prompt(prompt) ==
    /\ apc = "builder"
    /\ builder_system_prompt' = prompt
    /\ UNCHANGED <<tools, system_prompt, script, apc, op, user_input,
                   messages, conversations, final_answer, sent,
                   tool_invocations, tool_results>>
    /\ UNCHANGED <<gvars, svars, pvars, tvars>>

with_tool(name) ==
    /\ apc = "builder"
    /\ tools' = tools \cup {name}
    /\ UNCHANGED <<builder_system_prompt, system_prompt, script, apc, op,
                   user_input, messages, conversations, final_answer, sent,
                   tool_invocations, tool_results>>
    /\ UNCHANGED <<gvars, svars, pvars, tvars>>

\* LLMAgentBuilder::build: self.system_prompt.unwrap() panics on None.
build ==
    /\ apc = "builder"
    /\ IF builder_system_prompt = "none"
       THEN /\ apc' = "build_panicked"
            /\ UNCHANGED system_prompt
       ELSE /\ apc' = "ready"
            /\ system_prompt' = builder_system_prompt
    /\ UNCHANGED <<builder_system_prompt, tools, script, op, user_input,
                   messages, conversations, final_answer, sent,
                   tool_invocations, tool_results>>
    /\ UNCHANGED <<gvars, svars, pvars, tvars>>

\* chat, up to the first self.llm.invoke(&messages).await
chat(message, order) ==
    /\ apc = "ready"
    /\ op' = "chat"
    /\ user_input' = <<new_human_message(message)>>
    /\ messages' = build_messages(message, order)
    /\ sent' = <<messages'>>
    /\ apc' = "await_llm_1"
    /\ UNCHANGED <<builder_system_prompt, tools, system_prompt, script,
                   conversations, final_answer, tool_invocations,
                   tool_results>>
    /\ UNCHANGED <<gvars, svars, pvars, tvars>>

\* invoke, up to the first self.llm.invoke(&messages).await
invoke(ms, order) ==
    /\ apc = "ready"
    /\ op' = "invoke"
    /\ user_input' = ms.messages
    /\ messages' = build_messages2(ms, order)
    /\ sent' = <<messages'>>
    /\ apc' = "await_llm_1"
    /\ UNCHANGED <<builder_system_prompt, tools, system_prompt, script,
                   conversations, final_answer, tool_invocations,
                   tool_results>>
    /\ UNCHANGED <<gvars, svars, pvars, tvars>>

\* chat / invoke from the provider's first answer to the next await or the
\* return: record the conversation, then match on the result.
llm_result_1 ==
    /\ apc = "await_llm_1"
    /\ LET result == script[Len(sent)]
       IN  IF result.kind = "Err"
           THEN /\ apc' = "returned_err"
                /\ UNCHANGED <<messages, conversations, final_answer,
                               tool_invocations>>
           ELSE /\ conversations' = <<[request |-> messages,
                                       response |-> result]>>
                /\ IF result.kind = "Generate"
                   THEN /\ final_answer' = IF op = "invoke"
                                           THEN result.generation
                                           ELSE final_answer
                        /\ apc' = "returned_ok"
                        /\ UNCHANGED <<messages, tool_invocations>>
                   ELSE /\ messages' = add_message(messages,
                                                   result.ai_message)
                        /\ IF target_tool(result.name) # "none"
                           THEN /\ tool_invocations' =
                                     Append(tool_invocations,
                                            [name |-> target_tool(result.name),
                                             arguments |-> result.arguments])
                                /\ apc' = "await_tool"
                           ELSE /\ apc' = "returned_ok"
                                /\ UNCHANGED tool_invocations
                        /\ UNCHANGED final_answer
    /\ UNCHANGED <<builder_system_prompt, tools, system_prompt, script, op,
                   user_input, sent, tool_results>>
    /\ UNCHANGED <<gvars, svars, pvars, tvars>>

\* tool_call_returned variant: the loop returns after the tool message
\* without asking the provider again.
tool_call_returned_without_reinvoke(result) ==
    /\ apc = "await_tool"
    /\ tool_results' = Append(tool_results, result)
    /\ IF ~result.ok
       THEN /\ apc' = "returned_err"
            /\ UNCHANGED <<messages, sent>>
       ELSE /\ messages' = add_message(messages,
                               ToolMessageFor(result.value,
                                              conversations[1].response))
            /\ apc' = "returned_ok"
            /\ UNCHANGED sent
    /\ UNCHANGED <<builder_system_prompt, tools, system_prompt, script, op,
                   user_input, conversations, final_answer,
                   tool_invocations>>
    /\ UNCHANGED <<gvars, svars, pvars, tvars>>

\* From the return of tool.call(arguments).await to the second
\* self.llm.invoke(&messages).await; `result?` returns the tool's error.
tool_call_returned(result) ==
    /\ apc = "await_tool"
    /\ tool_results' = Append(tool_results, result)
    /\ IF ~result.ok
       THEN /\ apc' = "returned_err"
            /\ UNCHANGED <<messages, sent>>
       ELSE /\ messages' = add_message(messages,
                               ToolMessageFor(result.value,
                                              conversations[1].response))
            /\ sent' = Append(sent, messages')
            /\ apc' = "await_llm_2"
    /\ UNCHANGED <<builder_system_prompt, tools, system_prompt, script, op,
                   user_input, conversations, final_answer,
                   tool_invocations>>
    /\ UNCHANGED <<gvars, svars, pvars, tvars>>

\* llm_result_2 variant: the recorded requests share the live message list
\* instead of holding a copy taken when the request was sent.
llm_result_2_shared_request ==
    /\ apc = "await_llm_2"
    /\ LET result == script[Len(sent)]
       IN  IF result.kind = "Err"
           THEN /\ apc' = "returned_err"
                /\ UNCHANGED conversations
           ELSE /\ conversations' =
                     <<[request |-> messages,
                        response |-> conversations[1].response],
                       [request |-> messages, response |-> result]>>
                /\ apc' = "returned_ok"
    /\ UNCHANGED <<builder_system_prompt, tools, system_prompt, script, op,
                   user_input, messages, final_answer, sent,
                   tool_invocations, tool_results>>
    /\ UNCHANGED <<gvars, svars, pvars, tvars>>

\* llm_result_2 variant: a tool call that answers the second request is
\* resolved too.
llm_result_2_resolving_tool_call ==
    /\ apc = "await_llm_2"
    /\ LET result == script[Len(sent)]
       IN  IF result.kind = "Err"
           THEN /\ apc' = "returned_err"
                /\ UNCHANGED <<conversations, tool_invocations>>
           ELSE /\ conversations' = Append(conversations,
                                           [request |-> messages,
                                            response |-> result])
                /\ IF result.kind = "ToolCall"
                      /\ target_tool(result.name) # "none"
                   THEN /\ tool_invocations' =
                             Append(tool_invocations,
                                    [name |-> target_tool(result.name),
                                     arguments |-> result.arguments])
                        /\ apc' = "returned_ok"
                   ELSE /\ apc' = "returned_ok"
                        /\ UNCHANGED tool_invocations
    /\ UNCHANGED <<builder_system_prompt, tools, system_prompt, script, op,
                   user_input, messages, final_answer, sent, tool_results>>
    /\ UNCHANGED <<gvars, svars, pvars, tvars>>

\* From the provider's second answer to the return.
llm_result_2 ==
    /\ apc = "await_llm_2"
    /\ LET result == script[Len(sent)]
       IN  IF result.kind = "Err"
           THEN /\ apc' = "returned_err"
                /\ UNCHANGED conversations
           ELSE /\ conversations' = Append(conversations,
                                           [request |-> messages,
                                            response |-> result])
                /\ apc' = "returned_ok"
    /\ UNCHANGED <<builder_system_prompt, tools, system_prompt, script, op,
                   user_input, messages, final_answer, sent,
                   tool_invocations, tool_results>>
    /\ UNCHANGED <<gvars, svars, pvars, tvars>>

\* Returned variant: an aborted call still hands back the conversations
\* recorded so far.
ReturnedWithTraceOnErr ==
    [ok |-> apc = "returned_ok",
     final_answer |-> final_answer,
     conversations |-> conversations]

\* What chat / invoke hands to its caller once it has returned:
\* Ok(conversations) / Ok(AgentResponse {final_answer, intermediate_steps}),
\* or the Err(LLMError) of a `?`, which carries no conversations and no
\* answer (the locals are dropped).
Returned ==
    [ok |-> apc = "returned_ok",
     final_answer |-> IF apc = "returned_ok" THEN final_answer ELSE "",
     conversations |-> IF apc = "returned_ok" THEN conversations ELSE <<>>]

AgentNext ==
    \/ \E prompt \in Prompts : with_system_prompt(prompt)
    \/ \E name \in ToolNames : with_tool(name)
    \/ build
    \/ \E message \in UserTexts, order \in Orderings(tools) :
           chat(message, order)
    \/ \E ms \in InvokeInputs, order \in Orderings(tools) : invoke(ms, order)
    \/ llm_result_1
    \/ \E result \in ToolOutcomes : tool_call_returned(result)
    \/ llm_result_2

AgentSpec == AgentInit /\ [][AgentNext]_vars

\* AgentSpec for calls whose awaits return: the provider answers every
\* llm.invoke and a tool answers every tool.call.
AgentFairSpec ==
    /\ AgentSpec
    /\ WF_vars(llm_result_1)
    /\ WF_vars(\E result \in ToolOutcomes : tool_call_returned(result))
    /\ WF_vars(llm_result_2)

(***************************************************************************)
(* Response streams (fungraph_llm/src/gemini/llm.rs).  A text is the       *)
(* sequence of its pieces, so that fragments concatenate with \o; an       *)
(* Option is the empty sequence (None) or a one-element sequence (Some).   *)
(***************************************************************************)
\* Text fragments a provider streams.
Fragments == {<<"he">>, <<"l", "lo">>}

\* The argument string {"location":"Tokyo"} and a split of it in two.
ArgumentsWhole == <<"{", "\"location\"", ":", "\"Tokyo\"", "}">>

ArgumentsHead == SubSeq(ArgumentsWhole, 1, 3)

ArgumentsTail == SubSeq(ArgumentsWhole, 4, 5)

\* ChatCompletionMessageToolCallChunk with its FunctionCallStream
ToolCallChunk(id, name, arguments) ==
    [index |-> 0, id |-> id, name |-> name, arguments |-> arguments]

\* ChatChoiceStream with its delta
ChatChoiceStream(content, tool_calls, finish_reason) ==
    [content |-> content, tool_calls |-> tool_calls,
     finish_reason |-> finish_reason]

\* The data of an Event::Message: "[DONE]", the JSON of a
\* CreateChatCompletionStreamResponse with its choices, or text that is not
\* such JSON.
MessageData(data, choices) == [data |-> data, choices |-> choices]

DoneData == MessageData("[DONE]", <<>>)

TextData(fragment) ==
    MessageData("chunk", <<ChatChoiceStream(<<fragment>>, <<>>, "none")>>)

\* A whole tool call in one frame, as in test_invoke_stream_tool_calls.
ToolCallData ==
    MessageData("chunk",
        <<ChatChoiceStream(<<>>,
              <<<<ToolCallChunk(<<"">>, <<"get_current_weather">>,
                                <<ArgumentsWhole>>)>>>>,
              "tool_calls")>>)

\* A whole tool call in one frame that names the call "call_1".
ToolCallWithIdData ==
    MessageData("chunk",
        <<ChatChoiceStream(<<>>,
              <<<<ToolCallChunk(<<"call_1">>, <<"get_current_weather">>,
                                <<ArgumentsWhole>>)>>>>,
              "tool_calls")>>)

\* The same tool call split over two frames: the first carries the name and
\* the head of the arguments and no finish reason, the second the tail of
\* the arguments and the finish reason.
ToolCallHeadData ==
    MessageData("chunk",
        <<ChatChoiceStream(<<>>,
              <<<<ToolCallChunk(<<"">>, <<"get_current_weather">>,
                                <<ArgumentsHead>>)>>>>,
              "none")>>)

ToolCallTailData ==
    MessageData("chunk",
        <<ChatChoiceStream(<<>>,
              <<<<ToolCallChunk(<<>>, <<>>, <<ArgumentsTail>>)>>>>,
              "tool_calls")>>)

\* The closing frame: an empty delta with finish_reason stop.
ClosingData == MessageData("chunk", <<ChatChoiceStream(<<>>, <<>>, "stop")>>)

NoChoicesData == MessageData("chunk", <<>>)

InvalidData == MessageData("invalid", <<>>)

\* What the event source delivers: Ok(Event::Open), Ok(Event::Message),
\* Err(Error::StreamEnded), Err of another kind.
Event(type, data, error) == [type |-> type, data |-> data, error |-> error]

OpenEvent == Event("Open", InvalidData, "")

MessageEvent(data) == Event("Message", data, "")

ErrEvent(error) == Event("Err", InvalidData, error)

\* The event source reports its end.
NoEvent == Event("None", InvalidData, "")

Events ==
    {OpenEvent, ErrEvent("StreamEnded"), ErrEvent("Transport")}
    \cup {MessageEvent(d) :
            d \in {DoneData, ToolCallData, ToolCallWithIdData,
                   ToolCallHeadData,
                   ToolCallTailData, ClosingData, NoChoicesData,
                   InvalidData}
                  \cup {TextData(f) : f \in Fragments}}

EventScripts == UNION {[1..n -> Events] : n \in 0..MaxEvents}

\* serde_json::from_str of an argument string: an object with one member,
\* or an error.
ParseArguments(text) ==
    IF /\ Len(text) = 5
       /\ text[1] = "{" /\ text[3] = ":" /\ text[5] = "}"
       /\ {text[2], text[4]} \cap {"{", ":", "}"} = {}
    THEN [ok |-> TRUE, value |-> <<text[2], text[4]>>]
    ELSE [ok |-> FALSE, value |-> <<>>]

\* What a poll of the caller returns: Poll::Ready(Some(item)) with
\* item Ok(LLMResult::Generate), Ok(LLMResult::ToolCall), Ok(response) of
\* stream(), or Err; Poll::Ready(None); Poll::Pending; or the poll panics.
Polled(kind, text, name, arguments, tool_calls, response, error) ==
    [kind |-> kind, generation |-> text, id |-> "", name |-> name,
     arguments |-> arguments, tool_calls |-> tool_calls,
     response |-> response, error |-> error]

StreamGenerate(content) ==
    Polled("Generate", content, "", <<>>, <<>>, InvalidData, "")

StreamToolCall(name, arguments, tool_calls) ==
    Polled("ToolCall", <<>>, name, arguments, tool_calls, InvalidData, "")

StreamResponse(response) ==
    Polled("Response", <<>>, "", <<>>, <<>>, response, "")

StreamErr(error) == Polled("Err", <<>>, "", <<>>, <<>>, InvalidData, error)

StreamEnd == Polled("End", <<>>, "", <<>>, <<>>, InvalidData, "")

StreamPending == Polled("Pending", <<>>, "", <<>>, <<>>, InvalidData, "")

StreamPanic == Polled("Panic", <<>>, "", <<>>, <<>>, InvalidData, "")

\* ChatStreamItem variant: a text fragment is delivered only from a frame
\* that carries a finish reason.
ChatStreamItemFinishedOnly(data) ==
    IF data.data # "chunk"
    THEN StreamErr("serde_json")
    ELSE IF data.choices = <<>>
    THEN StreamErr("No choices in response")
    ELSE LET choice == data.choices[1]
         IN  IF choice.finish_reason = "tool_calls"
             THEN IF \/ choice.tool_calls = <<>>
                     \/ choice.tool_calls[1] = <<>>
                     \/ choice.tool_calls[1][1].name = <<>>
                     \/ choice.tool_calls[1][1].arguments = <<>>
                     \/ ~ParseArguments(
                            choice.tool_calls[1][1].arguments[1]).ok
                  THEN StreamPanic
                  ELSE StreamToolCall(
                           choice.tool_calls[1][1].name[1],
                           ParseArguments(
                               choice.tool_calls[1][1].arguments[1]).value,
                           choice.tool_calls)
             ELSE IF choice.content # <<>> /\ choice.finish_reason # "none"
                  THEN StreamGenerate(choice.content[1])
                  ELSE StreamErr("No content in response")

\* ChatStreamItem variant: a frame without content or without choices
\* yields an empty text.
ChatStreamItemEmptyText(data) ==
    IF data.data # "chunk"
    THEN StreamErr("serde_json")
    ELSE IF data.choices = <<>>
    THEN StreamGenerate(<<>>)
    ELSE LET choice == data.choices[1]
         IN  IF choice.finish_reason = "tool_calls"
             THEN IF \/ choice.tool_calls = <<>>
                     \/ choice.tool_calls[1] = <<>>
                     \/ choice.tool_calls[1][1].name = <<>>
                     \/ choice.tool_calls[1][1].arguments = <<>>
                     \/ ~ParseArguments(
                            choice.tool_calls[1][1].arguments[1]).ok
                  THEN StreamPanic
                  ELSE StreamToolCall(
                           choice.tool_calls[1][1].name[1],
                           ParseArguments(
                               choice.tool_calls[1][1].arguments[1]).value,
                           choice.tool_calls)
             ELSE IF choice.content # <<>>
                  THEN StreamGenerate(choice.content[1])
                  ELSE StreamGenerate(<<>>)

\* ChatStream::poll_next, the item for a message that is not [DONE]
\* (llm.rs:318-424).
ChatStreamItem(data) ==
    IF data.data # "chunk"
    THEN StreamErr("serde_json")
    ELSE IF data.choices = <<>>
    THEN StreamErr("No choices in response")
    ELSE LET choice == data.choices[1]
         IN  IF choice.finish_reason = "tool_calls"
             THEN IF \/ choice.tool_calls = <<>>
                     \/ choice.tool_calls[1] = <<>>
                     \/ choice.tool_calls[1][1].name = <<>>
                     \/ choice.tool_calls[1][1].arguments = <<>>
                     \/ ~ParseArguments(
                            choice.tool_calls[1][1].arguments[1]).ok
                  THEN StreamPanic
                  ELSE StreamToolCall(
                           choice.tool_calls[1][1].name[1],
                           ParseArguments(
                               choice.tool_calls[1][1].arguments[1]).value,
                           choice.tool_calls)
             ELSE IF choice.content # <<>>
                  THEN StreamGenerate(choice.content[1])
                  ELSE StreamErr("No content in response")

\* ChatStreamPoll variant: every error of the event source ends the stream.
ChatStreamPollEndingOnError(ev) ==
    CASE ev.type = "None" -> StreamEnd
      [] ev.type = "Err" -> StreamEnd
      [] ev.type = "Open" -> StreamPending
      [] ev.type = "Message" ->
            IF ev.data = DoneData
            THEN StreamEnd
            ELSE ChatStreamItem(ev.data)

\* ChatStream::poll_next, the match on what the event source returned.
ChatStreamPoll(ev) ==
    CASE ev.type = "None" -> StreamEnd
      [] ev.type = "Err" ->
            IF ev.error = "StreamEnded"
            THEN StreamEnd
            ELSE StreamErr(ev.error)
      [] ev.type = "Open" -> StreamPending
      [] ev.type = "Message" ->
            IF ev.data = DoneData
            THEN StreamEnd
            ELSE ChatStreamItem(ev.data)

\* event_source.next(): the next event, or the end once the events are
\* exhausted or the source was closed.
EventSourceNext ==
    IF es_closed \/ es_next > Len(events) THEN NoEvent ELSE events[es_next]

\* invoke_stream returned a ChatStream, or stream(event_source) spawned its
\* task and returned the receiver; the event source delivers any events.
StreamInit ==
    /\ s_kind \in {"ChatStream", "stream"}
    /\ events \in EventScripts
    /\ es_next = 1
    /\ es_closed = FALSE
    /\ task = IF s_kind = "stream" THEN "running" ELSE "none"
    /\ channel = <<>>
    /\ rx_dropped = FALSE
    /\ spc = "polling"
    /\ yielded = <<>>
    /\ generation = <<>>
    /\ GraphNew
    /\ AgentIdle
    /\ GeminiIdle
    /\ AgentStreamIdle

\* PollWakes variant: poll_next returns Pending without waking its task.
PollWakesNever(ev) == FALSE

\* ChatStream::poll_next calls cx.waker().wake_by_ref() before it returns
\* Poll::Pending for Event::Open (llm.rs:428-432).
PollWakes(ev) == ev.type = "Open"

\* One poll of the ChatStream by its consumer.  The consumer's task polls
\* again after an item, and after Pending once it is woken; a Pending
\* without a wake-up leaves it parked.
poll_next ==
    /\ s_kind = "ChatStream"
    /\ spc = "polling"
    /\ ~rx_dropped
    /\ Len(yielded) < MaxPolls
    /\ LET polled == ChatStreamPoll(EventSourceNext)
       IN  /\ es_next' = IF EventSourceNext = NoEvent
                         THEN es_next ELSE es_next + 1
           /\ IF polled = StreamPanic
              THEN /\ spc' = "panicked"
                   /\ UNCHANGED yielded
              ELSE /\ yielded' = Append(yielded, polled)
                   /\ spc' = IF polled = StreamPending
                                 /\ ~PollWakes(EventSourceNext)
                              THEN "parked" ELSE spc
    /\ UNCHANGED <<s_kind, events, es_closed, task, channel, rx_dropped>>
    /\ UNCHANGED <<gvars, avars, pvars, tvars, generation>>

\* stream(), what the task sends for a message that is not [DONE]
\* (llm.rs:260-276): the decoded response or the decoding error.
StreamItem(data) ==
    IF data.data = "chunk"
    THEN StreamResponse(data)
    ELSE StreamErr("serde_json")

\* stream_task variant: the task reads on after [DONE].
stream_task_reading_past_done ==
    /\ s_kind \in {"stream", "one_result"}
    /\ task = "running"
    /\ LET ev == EventSourceNext
           item == IF ev.type = "Err"
                   THEN StreamErr(ev.error)
                   ELSE StreamItem(ev.data)
           sends == \/ ev.type = "Err"
                    \/ ev.type = "Message" /\ ev.data # DoneData
           breaks == \/ ev.type = "None"
                     \/ sends /\ rx_dropped
       IN  /\ es_next' = IF ev = NoEvent THEN es_next ELSE es_next + 1
           /\ channel' = IF sends /\ ~rx_dropped
                         THEN Append(channel, item) ELSE channel
           /\ task' = IF breaks THEN "finished" ELSE task
           /\ es_closed' = IF breaks THEN TRUE ELSE es_closed
    /\ UNCHANGED <<s_kind, events, rx_dropped, spc, yielded>>
    /\ UNCHANGED <<gvars, avars, pvars, tvars, generation>>

\* stream_task variant: the task returns from inside the loop when the
\* receiver is gone, without closing the event source.
stream_task_leaking_on_drop ==
    /\ s_kind \in {"stream", "one_result"}
    /\ task = "running"
    /\ LET ev == EventSourceNext
           item == IF ev.type = "Err"
                   THEN StreamErr(ev.error)
                   ELSE StreamItem(ev.data)
           sends == \/ ev.type = "Err"
                    \/ ev.type = "Message" /\ ev.data # DoneData
           breaks == \/ ev.type = "None"
                     \/ ev.type = "Message" /\ ev.data = DoneData
                     \/ sends /\ rx_dropped
       IN  /\ es_next' = IF ev = NoEvent THEN es_next ELSE es_next + 1
           /\ channel' = IF sends /\ ~rx_dropped
                         THEN Append(channel, item) ELSE channel
           /\ task' = IF breaks THEN "finished" ELSE task
           /\ es_closed' = IF breaks /\ ~(sends /\ rx_dropped)
                           THEN TRUE ELSE es_closed
    /\ UNCHANGED <<s_kind, events, rx_dropped, spc, yielded>>
    /\ UNCHANGED <<gvars, avars, pvars, tvars, generation>>

\* stream(), one iteration of the task's loop, or the end of the loop with
\* event_source.close().  A send fails when the receiver was dropped.
stream_task ==
    /\ s_kind \in {"stream", "one_result"}
    /\ task = "running"
    /\ LET ev == EventSourceNext
           item == IF ev.type = "Err"
                   THEN StreamErr(ev.error)
                   ELSE StreamItem(ev.data)
           sends == \/ ev.type = "Err"
                    \/ ev.type = "Message" /\ ev.data # DoneData
           breaks == \/ ev.type = "None"
                     \/ ev.type = "Message" /\ ev.data = DoneData
                     \/ sends /\ rx_dropped
       IN  /\ es_next' = IF ev = NoEvent THEN es_next ELSE es_next + 1
           /\ channel' = IF sends /\ ~rx_dropped
                         THEN Append(channel, item) ELSE channel
           /\ task' = IF breaks THEN "finished" ELSE task
           /\ es_closed' = IF breaks THEN TRUE ELSE es_closed
    /\ UNCHANGED <<s_kind, events, rx_dropped, spc, yielded>>
    /\ UNCHANGED <<gvars, avars, pvars, tvars, generation>>

\* rx_next variant: the receiver hands out the newest item of the channel.
rx_next_newest_first ==
    /\ s_kind = "stream"
    /\ spc = "polling"
    /\ ~rx_dropped
    /\ Len(yielded) < MaxPolls
    /\ channel # <<>> \/ task = "finished"
    /\ IF channel # <<>>
       THEN /\ yielded' = Append(yielded, channel[Len(channel)])
            /\ channel' = SubSeq(channel, 1, Len(channel) - 1)
       ELSE /\ yielded' = Append(yielded, StreamEnd)
            /\ UNCHANGED channel
    /\ UNCHANGED <<s_kind, events, es_next, es_closed, task, rx_dropped,
                   spc>>
    /\ UNCHANGED <<gvars, avars, pvars, tvars, generation>>

\* One poll of the receiver of stream() that does not return Pending: the
\* oldest item in the channel, or None once the task has dropped the sender.
rx_next ==
    /\ s_kind = "stream"
    /\ spc = "polling"
    /\ ~rx_dropped
    /\ Len(yielded) < MaxPolls
    /\ channel # <<>> \/ task = "finished"
    /\ IF channel # <<>>
       THEN /\ yielded' = Append(yielded, Head(channel))
            /\ channel' = Tail(channel)
       ELSE /\ yielded' = Append(yielded, StreamEnd)
            /\ UNCHANGED channel
    /\ UNCHANGED <<s_kind, events, es_next, es_closed, task, rx_dropped,
                   spc>>
    /\ UNCHANGED <<gvars, avars, pvars, tvars, generation>>

\* The consumer drops its stream: a ChatStream owns its event source, which
\* is dropped with it; the receiver of stream() takes the channel with it.
drop_stream ==
    /\ s_kind \in {"ChatStream", "stream"}
    /\ ~rx_dropped
    /\ rx_dropped' = TRUE
    /\ es_closed' = IF s_kind = "ChatStream" THEN TRUE ELSE es_closed
    /\ channel' = <<>>
    /\ UNCHANGED <<s_kind, events, es_next, task, spc, yielded>>
    /\ UNCHANGED <<gvars, avars, pvars, tvars, generation>>

StreamNext ==
    \/ poll_next
    \/ stream_task
    \/ rx_next
    \/ drop_stream

StreamSpec == StreamInit /\ [][StreamNext]_vars

\* invoke_stream_one_result has called stream(event_source) and enters its
\* while-let loop over the receiver.
OneResultInit ==
    /\ s_kind = "one_result"
    /\ events \in EventScripts
    /\ es_next = 1
    /\ es_closed = FALSE
    /\ task = "running"
    /\ channel = <<>>
    /\ rx_dropped = FALSE
    /\ spc = "polling"
    /\ yielded = <<>>
    /\ generation = <<>>
    /\ GraphNew
    /\ AgentIdle
    /\ GeminiIdle
    /\ AgentStreamIdle

RECURSIVE OneResultChoices(_, _)
\* invoke_stream_one_result, the loop over response.choices: the text after
\* the choices were handled, or a panic of finish_reason.unwrap().
OneResultChoices(choices, text) ==
    IF choices = <<>>
    THEN [panic |-> FALSE, generation |-> text]
    ELSE IF Head(choices).finish_reason = "none"
    THEN [panic |-> TRUE, generation |-> text]
    ELSE OneResultChoices(
             Tail(choices),
             IF /\ Head(choices).finish_reason # "tool_calls"
                /\ Head(choices).content # <<>>
             THEN text \o Head(choices).content[1]
             ELSE text)

\* invoke_stream_one_result, one turn of `while let Some(result) =
\* original_stream.next().await` that does not wait: the body for the
\* oldest item of the channel, or the return once the task has dropped the
\* sender.  A panic unwinds and drops the receiver.
one_result_next ==
    /\ s_kind = "one_result"
    /\ spc = "polling"
    /\ channel # <<>> \/ task = "finished"
    /\ IF channel = <<>>
       THEN /\ spc' = "returned"
            /\ UNCHANGED <<channel, rx_dropped, yielded, generation>>
       ELSE LET result == Head(channel)
                handled == OneResultChoices(result.response.choices,
                                            generation)
            IN  /\ yielded' = Append(yielded, result)
                /\ IF result.kind = "Response" /\ handled.panic
                   THEN /\ spc' = "panicked"
                        /\ rx_dropped' = TRUE
                        /\ channel' = <<>>
                        /\ UNCHANGED generation
                   ELSE /\ generation' = IF result.kind = "Response"
                                          THEN handled.generation
                                          ELSE generation
                        /\ channel' = Tail(channel)
                        /\ UNCHANGED <<spc, rx_dropped>>
    /\ UNCHANGED <<s_kind, events, es_next, es_closed, task>>
    /\ UNCHANGED <<gvars, avars, pvars, tvars>>

OneResultNext ==
    \/ stream_task
    \/ one_result_next

OneResultSpec == OneResultInit /\ [][OneResultNext]_vars

\* The runtime keeps running the task stream() spawned, and the event source
\* answers each of its reads; the consumer is free to stop at any time.
StreamFairSpec == StreamSpec /\ WF_vars(stream_task)

(***************************************************************************)
(* The Gemini provider, non-streaming call and request building            *)
(* (fungraph_llm/src/gemini/llm.rs:55-147, 453-528).                       *)
(***************************************************************************)
\* The messages a caller may hand to the provider.
SampleMessages ==
    {new_system_message("be kind"),
     new_human_message("weather in tokyo?"),
     Message("ai", "tool called", "none",
             <<[id |-> "call_abc123", name |-> "get_weather",
                arguments |-> "tokyo"]>>),
     new_tool_message("25 degrees", "call_abc123"),
     Message("ai", "none", "none", <<>>)}

\* The Messages values handed to generate / invoke_stream: up to MaxMessages
\* messages and up to two tools.
CallMessages ==
    {[messages |-> ms, tools |-> ts] :
        ms \in UNION {[1..n -> SampleMessages] : n \in 0..MaxMessages},
        ts \in {<<>>, <<to_openai_tool("get_weather")>>,
                <<to_openai_tool("get_weather"), to_openai_tool("get_time")>>}}

\* ChatCompletionMessageToolCall of a non-streaming response
ResponseToolCall(id, name, arguments) ==
    [id |-> id, name |-> name, arguments |-> arguments]

\* ChatChoice with its ChatCompletionResponseMessage
ChatChoice(content, tool_calls, finish_reason) ==
    [content |-> content, tool_calls |-> tool_calls,
     finish_reason |-> finish_reason]

WeatherCall ==
    ResponseToolCall("call_abc123", "get_weather", ArgumentsWhole)

TimeCall == ResponseToolCall("call_def456", "get_time", ArgumentsWhole)

ResponseBodies ==
    {ResponseBody("invalid", <<>>),
     ResponseBody("ok", <<>>)}
    \cup
    {ResponseBody("ok", <<choice>>) :
        choice \in
          {ChatChoice(<<"sunny">>, <<>>, "stop"),
           ChatChoice(<<>>, <<>>, "stop"),
           ChatChoice(<<"sunny">>, <<>>, "none"),
           ChatChoice(<<"sunny">>, <<<<WeatherCall>>>>, "stop"),
           ChatChoice(<<>>, <<<<WeatherCall>>>>, "tool_calls"),
           ChatChoice(<<"sunny">>, <<<<TimeCall, WeatherCall>>>>,
                      "tool_calls"),
           ChatChoice(<<>>, <<>>, "tool_calls"),
           ChatChoice(<<>>, <<<<>>>>, "tool_calls"),
           ChatChoice(<<>>,
                      <<<<ResponseToolCall("call_abc123", "get_weather",
                                           ArgumentsHead)>>>>,
                      "tool_calls")}}

\* What the HTTP exchange of generate gives: send().await / text().await
\* fail, or a status and a body.
HttpResponses ==
    {[sent |-> FALSE, status |-> 0, body |-> ResponseBody("invalid", <<>>)]}
    \cup {[sent |-> TRUE, status |-> st, body |-> b] :
            st \in {200, 500}, b \in ResponseBodies}

\* to_openai_messages variant: the identifier of a message is left out.
to_openai_messages_without_id(ms) ==
    [i \in 1..Len(ms.messages) |->
        [role |-> CASE ms.messages[i].message_type = "ai" -> "assistant"
                    [] ms.messages[i].message_type = "human" -> "user"
                    [] ms.messages[i].message_type = "system" -> "system"
                    [] ms.messages[i].message_type = "tool" -> "tool",
         content |-> ms.messages[i].content,
         tool_calls |-> ms.messages[i].tool_calls,
         tool_call_id |-> "none"]]

\* OpenAIMessages::to_openai_messages for Messages
to_openai_messages(ms) ==
    [i \in 1..Len(ms.messages) |->
        [role |-> CASE ms.messages[i].message_type = "ai" -> "assistant"
                    [] ms.messages[i].message_type = "human" -> "user"
                    [] ms.messages[i].message_type = "system" -> "system"
                    [] ms.messages[i].message_type = "tool" -> "tool",
         content |-> ms.messages[i].content,
         tool_calls |-> ms.messages[i].tool_calls,
         tool_call_id |-> ms.messages[i].id]]

\* build_gemini_request variant: tool_choice is always sent.
build_gemini_request_always_auto(ms, is_stream) ==
    [messages |-> to_openai_messages(ms),
     model |-> "gemini-2.0-flash-001",
     stream |-> IF is_stream THEN <<TRUE>> ELSE <<>>,
     tools |-> IF ms.tools = <<>> THEN <<>> ELSE <<ms.tools>>,
     tool_choice |-> <<"auto">>]

\* Gemini::build_gemini_request; an absent field of the request (None,
\* skipped when serializing) is the empty sequence.
build_gemini_request(ms, is_stream) ==
    [messages |-> to_openai_messages(ms),
     model |-> "gemini-2.0-flash-001",
     stream |-> IF is_stream THEN <<TRUE>> ELSE <<>>,
     tools |-> IF ms.tools = <<>> THEN <<>> ELSE <<ms.tools>>,
     tool_choice |-> IF ms.tools = <<>> THEN <<>> ELSE <<"auto">>]

build_gemini_stream_request(ms) == build_gemini_request(ms, TRUE)

build_gemini_request_no_stream(ms) == build_gemini_request(ms, FALSE)

\* generate_result variant: a tool call is returned whenever the message of
\* the first choice carries tool calls.
generate_result_by_tool_calls(h) ==
    IF ~h.sent
    THEN GeminiResult("Err", "", "", "", <<>>, <<>>)
    ELSE IF h.status \notin 200..299
    THEN GeminiResult("Err", "", "", "", <<>>, <<>>)
    ELSE IF h.body.json # "ok"
    THEN GeminiResult("Err", "", "", "", <<>>, <<>>)
    ELSE IF h.body.choices = <<>>
    THEN GeminiResult("Generate", "", "", "", <<>>, <<>>)
    ELSE LET choice == h.body.choices[1]
         IN  IF choice.finish_reason = "none"
             THEN GeminiResult("Panic", "", "", "", <<>>, <<>>)
             ELSE IF choice.tool_calls # <<>> /\ choice.tool_calls[1] # <<>>
             THEN IF ~ParseArguments(choice.tool_calls[1][1].arguments).ok
                  THEN GeminiResult("Panic", "", "", "", <<>>, <<>>)
                  ELSE GeminiResult(
                           "ToolCall", "",
                           choice.tool_calls[1][1].id,
                           choice.tool_calls[1][1].name,
                           ParseArguments(
                               choice.tool_calls[1][1].arguments).value,
                           choice.tool_calls)
             ELSE GeminiResult(
                      "Generate",
                      IF choice.content # <<>> THEN choice.content[1] ELSE "",
                      "", "", <<>>, <<>>)

\* Gemini::generate from the HTTP exchange to its result (llm.rs:61-146).
generate_result(h) ==
    IF ~h.sent
    THEN GeminiResult("Err", "", "", "", <<>>, <<>>)
    ELSE IF h.status \notin 200..299
    THEN GeminiResult("Err", "", "", "", <<>>, <<>>)
    ELSE IF h.body.json # "ok"
    THEN GeminiResult("Err", "", "", "", <<>>, <<>>)
    ELSE IF h.body.choices = <<>>
    THEN GeminiResult("Generate", "", "", "", <<>>, <<>>)
    ELSE LET choice == h.body.choices[1]
         IN  IF choice.finish_reason = "none"
             THEN GeminiResult("Panic", "", "", "", <<>>, <<>>)
             ELSE IF choice.finish_reason = "tool_calls"
             THEN IF \/ choice.tool_calls = <<>>
                     \/ choice.tool_calls[1] = <<>>
                     \/ ~ParseArguments(
                            choice.tool_calls[1][1].arguments).ok
                  THEN GeminiResult("Panic", "", "", "", <<>>, <<>>)
                  ELSE GeminiResult(
                           "ToolCall", "",
                           choice.tool_calls[1][1].id,
                           choice.tool_calls[1][1].name,
                           ParseArguments(
                               choice.tool_calls[1][1].arguments).value,
                           choice.tool_calls)
             ELSE GeminiResult(
                      "Generate",
                      IF choice.content # <<>> THEN choice.content[1] ELSE "",
                      "", "", <<>>, <<>>)

\* A Gemini exists and a caller holds a Messages value; the server behind
\* api_base answers in any of the ways above.
GeminiInit ==
    /\ call_messages \in CallMessages
    /\ http_response \in HttpResponses
    /\ gemini_request = NoRequest
    /\ llm_result = NoResult
    /\ lpc = "ready"
    /\ GraphNew
    /\ AgentIdle
    /\ StreamIdle
    /\ AgentStreamIdle

\* generate / invoke up to send().await: the request is built and posted.
generate ==
    /\ lpc = "ready"
    /\ gemini_request' = build_gemini_request_no_stream(call_messages)
    /\ lpc' = "await_response"
    /\ UNCHANGED <<call_messages, http_response, llm_result>>
    /\ UNCHANGED <<gvars, avars, svars, tvars>>

\* generate from the answer of the server to its return or panic.
generate_returned ==
    /\ lpc = "await_response"
    /\ llm_result' = generate_result(http_response)
    /\ lpc' = IF generate_result(http_response).kind = "Panic"
              THEN "panicked" ELSE "returned"
    /\ UNCHANGED <<call_messages, http_response, gemini_request>>
    /\ UNCHANGED <<gvars, avars, svars, tvars>>

\* invoke_stream / invoke_stream_one_result up to .eventsource(): the
\* streaming request is built and posted.
invoke_stream ==
    /\ lpc = "ready"
    /\ gemini_request' = build_gemini_stream_request(call_messages)
    /\ lpc' = "streaming"
    /\ UNCHANGED <<call_messages, http_response, llm_result>>
    /\ UNCHANGED <<gvars, avars, svars, tvars>>

GeminiNext ==
    \/ generate
    \/ generate_returned
    \/ invoke_stream

GeminiSpec == GeminiInit /\ [][GeminiNext]_vars

(***************************************************************************)
(* The action stream of an agent (fungraph/src/agent/mod.rs:23-49,         *)
(* 116-121).                                                               *)
(***************************************************************************)
\* The literal of AgentStream::poll_next's Request (mod.rs:30), a Japanese
\* sentence: "Please look up the current weather in Tokyo."
TokyoWeatherRequest == "Please look up the current weather in Tokyo."

\* The literal of AgentStream::poll_next's Response (mod.rs:34), the
\* Japanese word for "sunny".
Sunny == "sunny"

\* Texts a user asks with
RequestTexts ==
    {TokyoWeatherRequest, "hello request", "what time is it?", "hi", ""}

\* Texts the provider answers with
ResponseTexts == {Sunny, "hello response", "noon", "hello", ""}

\* AgentAction::Request / AgentAction::Response
AgentAction(kind, text) == [kind |-> kind, text |-> text]

\* Messages::builder().add_human_message(message).build()
test_message(message) ==
    [messages |-> <<new_human_message(message)>>, tools |-> <<>>]

\* An agent over a provider that answers with provider_response, and the
\* Messages value of a user.
StartInit ==
    /\ start_messages \in {test_message(t) : t \in RequestTexts}
    /\ provider_response \in ResponseTexts
    /\ next_action = <<>>
    /\ stream_actions = <<>>
    /\ tpc = "ready"
    /\ GraphNew
    /\ AgentIdle
    /\ StreamIdle
    /\ GeminiIdle

\* LLMAgent::start(messages): the stream holds the agent and no action; the
\* messages are not used.
start ==
    /\ tpc = "ready"
    /\ next_action' = <<>>
    /\ tpc' = "started"
    /\ UNCHANGED <<start_messages, provider_response, stream_actions>>
    /\ UNCHANGED <<gvars, avars, svars, pvars>>

\* AgentStream::poll_next
AgentStream_poll_next ==
    /\ tpc = "started"
    /\ Len(stream_actions) < MaxPolls
    /\ IF next_action = <<>>
       THEN /\ next_action' = <<AgentAction("Request", TokyoWeatherRequest)>>
            /\ stream_actions' =
                 Append(stream_actions,
                        AgentAction("Request", TokyoWeatherRequest))
       ELSE /\ stream_actions' =
                 Append(stream_actions, AgentAction("Response", Sunny))
            /\ UNCHANGED next_action
    /\ UNCHANGED <<start_messages, provider_response, tpc>>
    /\ UNCHANGED <<gvars, avars, svars, pvars>>

StartNext ==
    \/ start
    \/ AgentStream_poll_next

StartSpec == StartInit /\ [][StartNext]_vars

(***************************************************************************)
(* Properties of the graph executor                                        *)
(***************************************************************************)
\* Edge i may be taken on state s.
EdgeEnabled(i, s) ==
    edges[i].type = "Edge" \/ Holds(edges[i].condition, s)

\* The scan that follows the last node run has happened.
Scanned == ran # <<>> /\ Len(took) = Len(ran)

LastRan == ran[Len(ran)]

LastLeft == left[Len(left)]

LastTook == took[Len(took)]

\* The outgoing edge of n that was added first among those enabled on s
\* (0 when there is none).
FirstAdded(n, s) ==
    LET en == {i \in Outgoing(n) : EdgeEnabled(i, s)}
    IN  IF en = {} THEN 0 ELSE CHOOSE i \in en : \A j \in en : i <= j

\* C1: after a node has run, run moves to the target of the outgoing edge
\* that is first IN THE ORDER OF ADDITION among those that are Plain or
\* Conditional with a true predicate (it stays when there is none).
C1_FirstAddedEdgeTaken ==
    Scanned =>
        LET f == FirstAdded(LastRan, LastLeft)
        IN  current_node = IF f = 0 THEN LastRan ELSE edges[f].target

\* C2: a Conditional edge is never taken from a node that has a Plain edge
\* (to another target) added before it.
C2_PlainBeforeConditionalWins ==
    Scanned =>
        \A i \in Outgoing(LastRan), j \in Outgoing(LastRan) :
            (/\ i < j
             /\ edges[i].type = "Edge"
             /\ edges[j].type = "ConditionalEdge"
             /\ edges[i].target # edges[j].target)
            => (LastTook # 0 /\ edges[LastTook].type = "Edge")

\* No outgoing edge of n may be taken on s.
NoEdgeEnabled(n, s) == \A i \in Outgoing(n) : ~EdgeEnabled(i, s)

\* C3: when no outgoing edge of the node that just ran can be taken, the
\* scan ends run: it returns with the state that node left, no node runs any
\* more, and nothing happens after the return.
C3_NoEdgeHalts ==
    [][/\ (gpc = "scan" /\ NoEdgeEnabled(current_node, current_state))
          => (/\ gpc' = "done"
              /\ current_state' = LastLeft
              /\ ran' = ran)
       /\ gpc = "done" => FALSE]_gvars

\* run halted at a node that has outgoing edges, none of them taken.
C3_Witness ==
    /\ gpc = "done"
    /\ LastTook = 0
    /\ Outgoing(LastRan) # {}
    /\ LastRan \notin EndIndices
    /\ current_state # input_state

\* The nodes run so far form a path from the begin node whose every edge was
\* Plain or had a true predicate on the state it was taken on.
IsValidPath ==
    /\ ran # <<>> => (Incoming(ran[1]) = {} /\ left[1] = NodeRun(nodes[ran[1]], input_state))
    /\ \A i \in 1..(Len(ran) - 1) :
          /\ took[i] \in Outgoing(ran[i]) \cap Incoming(ran[i + 1])
          /\ EdgeEnabled(took[i], left[i])
          /\ left[i + 1] = NodeRun(nodes[ran[i + 1]], left[i])

\* C4: the nodes run are always a path of valid edges from the start node,
\* and a walk that reaches a node where no edge can be taken ends there:
\* the next step of run is its return.
C4_ValidPathAndHalt ==
    /\ []IsValidPath
    /\ [][(gpc = "scan" /\ NoEdgeEnabled(current_node, current_state))
            => (gpc' = "done" /\ IsValidPath')]_gvars

\* A run that returned after walking over a conditional edge.
C4_Witness ==
    /\ gpc = "done"
    /\ Len(ran) = 3
    /\ edges[took[1]].type = "ConditionalEdge"
    /\ LastTook = 0

IsLoopGraph ==
    /\ Len(nodes) = 4
    /\ Len(edges) = 4
    /\ edges[2].type = "ConditionalEdge"

LoopP1 == edges[2].condition

LoopP2 == edges[4].condition

\* C7: in the loop graph, each time A (node 2) has run with p1 true and p2
\* false the executor runs B (node 3) and then A again; when A has run with
\* p2 true and p1 false it runs end (node 4) and returns there.  With p1
\* constantly false and p2 constantly true, B never runs and run returns
\* after start, A, end.
C7_LoopScenario ==
    IsLoopGraph =>
        /\ \A i \in 1..Len(took) :
              ran[i] = 2 =>
                /\ (Holds(LoopP1, left[i]) /\ ~Holds(LoopP2, left[i])) =>
                      /\ took[i] = 2
                      /\ (Len(ran) >= i + 1 => ran[i + 1] = 3)
                      /\ (Len(ran) >= i + 2 => ran[i + 2] = 2)
                      /\ (Len(ran) < i + 2 => gpc # "done")
                /\ (Holds(LoopP2, left[i]) /\ ~Holds(LoopP1, left[i])) =>
                      /\ took[i] = 4
                      /\ (Len(ran) >= i + 1 => ran[i + 1] = 4)
                      /\ Len(ran) <= i + 1
                      /\ (Len(took) >= i + 1 => (took[i + 1] = 0 /\ gpc = "done"))
        /\ (LoopP1 = "always_false" /\ LoopP2 = "always_true") =>
              /\ \A i \in 1..Len(ran) : ran[i] = <<1, 2, 4>>[i]
              /\ Len(ran) <= 3
              /\ gpc = "done" => ran = <<1, 2, 4>>

\* The loop was walked once: start, A, B, A, end.
C7_Witness ==
    /\ IsLoopGraph
    /\ gpc = "done"
    /\ ran = <<1, 2, 3, 2, 4>>

\* The graph is a chain start -> A1 -> ... -> Ak -> end of Plain edges.
IsChainGraph ==
    /\ Len(nodes) >= 3
    /\ Len(edges) = Len(nodes) - 1
    /\ \A i \in 1..Len(edges) : edges[i] = PlainEdge(i, i + 1)

\* The state after the runs of ks[i], ks[i+1], ... on s, in this order.
RECURSIVE RunAll(_, _, _)
RunAll(ks, i, s) ==
    IF i > Len(ks) THEN s ELSE RunAll(ks, i + 1, NodeRun(ks[i], s))

\* C8: on a chain, run executes the nodes in chain order, each once, and
\* returns the state the nodes' mutations give when applied in that order to
\* the initial state; with the single node A setting value to "x" the value
\* returned is "x".
C8_ChainRunsEachNodeOnce ==
    IsChainGraph =>
        /\ \A i \in 1..Len(ran) : ran[i] = i
        /\ gpc = "done" =>
              /\ Len(ran) = Len(nodes)
              /\ current_state = RunAll(nodes, 1, input_state)
              /\ (Len(nodes) = 3 /\ nodes[2] = "SetValueNode")
                    => current_state.value = "x"

\* Scenario A has returned.
C8_Witness ==
    /\ IsChainGraph
    /\ gpc = "done"
    /\ nodes = <<"StartFunNode", "SetValueNode", "EndFunNode">>
    /\ input_state.count = 1
    /\ current_state = [value |-> "x", count |-> 2]

(***************************************************************************)
(* Properties of the agent loop                                            *)
(***************************************************************************)
\* The provider's answer r calls a tool of the agent's tool table.
RegisteredCall(r) == r.kind = "ToolCall" /\ r.name \in tools

\* The number of consecutive calls of registered tools the provider answers
\* from its i-th answer on.
RECURSIVE LeadingToolCalls(_)
LeadingToolCalls(i) ==
    IF i <= MaxScript /\ RegisteredCall(script[i])
    THEN 1 + LeadingToolCalls(i + 1)
    ELSE 0

ProviderToolCalls == LeadingToolCalls(1)

\* The provider answers k calls of registered tools and then plain text.
ToolCallsThenText ==
    /\ ProviderToolCalls < MaxScript
    /\ script[ProviderToolCalls + 1].kind = "Generate"

LastResponse == conversations[Len(conversations)].response

Min(a, b) == IF a <= b THEN a ELSE b

C10_ChatWithToolTrace ==
    (/\ op = "chat"
     /\ apc = "returned_ok"
     /\ RegisteredCall(script[1])
     /\ script[2].kind = "Generate")
    => /\ Len(conversations) = 2
       /\ conversations[1].request.messages =
              <<Message("system", system_prompt, "none", <<>>), user_input[1]>>
       /\ user_input[1].message_type = "human"
       /\ conversations[2].request.messages =
              conversations[1].request.messages
              \o <<Message("ai", "tool called", "none",
                           <<[id |-> script[1].id, name |-> script[1].name,
                              arguments |-> script[1].arguments]>>),
                   Message("tool", tool_results[1].value, script[1].id, <<>>)>>
       /\ conversations[1].response = script[1]
       /\ conversations[2].response = script[2]
       /\ tool_results[1].ok

\* test_agent_chat_with_tools: get_weather registered and called, then text.
C10_Witness ==
    /\ op = "chat"
    /\ apc = "returned_ok"
    /\ tools = {"get_weather"}
    /\ script[1].name = "get_weather"
    /\ script[2].kind = "Generate"
    /\ Len(conversations) = 2
    /\ Len(conversations[2].request.messages) = 4

\* A message list holds no message of the tool role.
NoToolMessage(ms) == \A k \in 1..Len(ms) : ms[k].message_type # "tool"

\* The provider's first answer is recorded and calls a tool that is not in
\* the agent's tool table.
UnknownToolCalled ==
    /\ conversations # <<>>
    /\ conversations[1].response.kind = "ToolCall"
    /\ conversations[1].response.name \notin tools

\* C11: when the provider calls a tool whose name is not registered, chat and
\* invoke have returned successfully as soon as that answer is recorded, with
\* exactly the one conversation recorded so far, after a single provider
\* call, without invoking any tool, and no recorded request holds a message
\* of the tool role.
C11_UnknownToolReturnsTrace ==
    UnknownToolCalled =>
        /\ apc = "returned_ok"
        /\ Len(conversations) = 1
        /\ conversations[1].response = script[1]
        /\ Len(sent) = 1
        /\ tool_invocations = <<>>
        /\ tool_results = <<>>
        /\ \A i \in 1..Len(conversations) :
              NoToolMessage(conversations[i].request.messages)

\* chat returned after the provider asked for get_time while only
\* get_weather was registered.
C11_Witness ==
    /\ UnknownToolCalled
    /\ apc = "returned_ok"
    /\ op = "chat"
    /\ tools = {"get_weather"}
    /\ conversations[1].response.name = "get_time"

\* chat or invoke has returned to its caller.
HasReturned == apc \in {"returned_ok", "returned_err"}

\* C12: the final answer invoke returns is the text of the Generate that
\* ended the call, also when that Generate answers the request re-sent after
\* a tool call.
C12_FinalAnswerIsEndingGenerate ==
    (/\ op = "invoke"
     /\ apc = "returned_ok"
     /\ LastResponse.kind = "Generate")
    => Returned.final_answer = LastResponse.generation

\* The invocation of a registered tool has failed.
ToolFailed == tool_results # <<>> /\ ~tool_results[1].ok

\* C13 as stated: when the invocation of a registered tool fails, the
\* conversations accumulated so far (at least the first pair) are still
\* returned to the caller.
C13_TraceReturnedOnToolFailure ==
    (HasReturned /\ ToolFailed) => Len(Returned.conversations) >= 1

\* C13 amended: when the invocation of a registered tool fails, the call has
\* returned the error at once: the tool was invoked once, the provider was
\* called once and is not called again, and the caller gets an Err that
\* carries none of the conversations - the pair recorded before the tool was
\* invoked is dropped with the call's locals.
C13_ToolFailureReturnsErrOnly ==
    ToolFailed =>
        /\ apc = "returned_err"
        /\ ~Returned.ok
        /\ Returned.conversations = <<>>
        /\ Len(conversations) = 1
        /\ Len(sent) = 1
        /\ Len(tool_invocations) = 1
        /\ NoToolMessage(messages.messages)

\* chat returned after get_weather, asked for by the provider, failed.
C13_Witness ==
    /\ ToolFailed
    /\ HasReturned
    /\ op = "chat"
    /\ tool_invocations[1].name = "get_weather"
    /\ conversations[1].response = script[1]

\* C14: the trace chat / invoke returns holds exactly one conversation per
\* provider call made, in call order, each pairing the request as it was
\* when sent with the response the provider gave to that call.
C14_OneConversationPerCall ==
    Returned.ok =>
        /\ Len(Returned.conversations) = Len(sent)
        /\ \A i \in 1..Len(sent) :
              /\ Returned.conversations[i].request = sent[i]
              /\ Returned.conversations[i].response = script[i]

\* invoke returned a trace of two provider calls whose requests differ.
C14_Witness ==
    /\ Returned.ok
    /\ op = "invoke"
    /\ Len(sent) = 2
    /\ Len(Returned.conversations) = 2
    /\ sent[1] # sent[2]

\* The messages every request of the running call starts with.
RequestHead ==
    (IF system_prompt # "none"
     THEN <<[message_type |-> "system", content |-> system_prompt,
             id |-> "none", tool_calls |-> <<>>]>>
     ELSE <<>>) \o user_input

\* C15: every request sent to the provider starts with the system message
\* exactly when a system prompt is configured, followed by the supplied
\* history in its original order (the first request is exactly that), and
\* carries the schema of every registered tool once, hence a tool list
\* exactly when a tool is registered.
C15_RequestShape ==
    \A i \in 1..Len(sent) :
        /\ Len(sent[i].messages) >= Len(RequestHead)
        /\ SubSeq(sent[i].messages, 1, Len(RequestHead)) = RequestHead
        /\ i = 1 => sent[i].messages = RequestHead
        /\ \A k \in (Len(RequestHead) + 1)..Len(sent[i].messages) :
               sent[i].messages[k].message_type \in {"ai", "tool"}
        /\ Len(sent[i].tools) = Cardinality(tools)
        /\ {sent[i].tools[k] : k \in 1..Len(sent[i].tools)}
              = {[type |-> "function", name |-> n] : n \in tools}
        /\ (sent[i].tools # <<>>) <=> (tools # {})

\* chat with two registered tools sent its second request.
C15_Witness ==
    /\ op = "chat"
    /\ Len(sent) = 2
    /\ Cardinality(tools) = 2
    /\ system_prompt # "none"

\* C16: within one chat / invoke the tool list of the request never changes:
\* the request re-sent after a tool call carries the same tool schemas in
\* the same order, and only messages were appended to the first request.
C16_ToolListFixed ==
    /\ \A i \in 1..Len(sent) :
          /\ sent[i].tools = sent[1].tools
          /\ Len(sent[i].messages) >= Len(sent[1].messages)
          /\ SubSeq(sent[i].messages, 1, Len(sent[1].messages))
                = sent[1].messages
    /\ sent # <<>> => messages.tools = sent[1].tools

\* invoke re-sent a request that advertises two tools.
C16_Witness ==
    /\ op = "invoke"
    /\ Len(sent) = 2
    /\ Len(sent[2].tools) = 2
    /\ Len(sent[2].messages) = Len(sent[1].messages) + 2

(***************************************************************************)
(* Properties of the response streams                                      *)
(***************************************************************************)
\* The events that are not Open, in order.
NotOpen(ev) == ev.type # "Open"

Delivered == SelectSeq(events, NotOpen)

\* The polls that did not return Pending, in order.
NotPending(polled) == polled.kind # "Pending"

Items == SelectSeq(yielded, NotPending)

\* The event at position k is a message frame with payload [DONE].
IsDone(ev) == ev.type = "Message" /\ ev.data.data = "[DONE]"

\* The event is a message frame that carries only a text fragment.
IsText(ev) ==
    /\ ev.type = "Message"
    /\ ev.data.data = "chunk"
    /\ Len(ev.data.choices) = 1
    /\ ev.data.choices[1].content # <<>>
    /\ ev.data.choices[1].tool_calls = <<>>
    /\ ev.data.choices[1].finish_reason = "none"

\* The event source delivers N >= 1 text frames followed by [DONE].
IsTextScript ==
    /\ Len(Delivered) >= 2
    /\ IsDone(Delivered[Len(Delivered)])
    /\ \A k \in 1..(Len(Delivered) - 1) : IsText(Delivered[k])

RECURSIVE Concat(_)
\* The concatenation of a sequence of texts.
Concat(texts) ==
    IF texts = <<>> THEN <<>> ELSE Head(texts) \o Concat(Tail(texts))

\* C17: when a text split into N >= 1 fragments arrives as N message frames
\* followed by [DONE], the ChatStream of invoke_stream yields exactly N
\* Generate items, the i-th carrying the i-th fragment unchanged, and then
\* reports its end; the yielded fragments concatenate to the original text.
C17_FragmentsYieldedInOrder ==
    (s_kind = "ChatStream" /\ IsTextScript) =>
        LET N == Len(Delivered) - 1
            fragments == [k \in 1..N |-> Delivered[k].data.choices[1].content[1]]
        IN  /\ spc = "polling"
            /\ \A k \in 1..Len(Items) :
                  IF k <= N
                  THEN /\ Items[k].kind = "Generate"
                       /\ Items[k].generation = fragments[k]
                  ELSE Items[k].kind = "End"
            /\ es_next > Len(events) =>
                  /\ Len(Items) >= N + 1
                  /\ Concat([k \in 1..N |-> Items[k].generation])
                        = Concat(fragments)

\* The text "hello" arrived as "he" and "llo", and the consumer polled once
\* more after the end.
C17_Witness ==
    /\ s_kind = "ChatStream"
    /\ IsTextScript
    /\ Len(Items) = 4
    /\ Concat(<<Items[1].generation, Items[2].generation>>)
          = <<"he", "l", "lo">>
    /\ Items[3].kind = "End"

\* The event source delivers the tool call split over two frames, then
\* [DONE].
IsFragmentedToolCall ==
    Delivered = <<MessageEvent(ToolCallHeadData),
                  MessageEvent(ToolCallTailData),
                  MessageEvent(DoneData)>>

\* C18: a tool call whose name and argument string are split over several
\* frames makes the ChatStream emit the same single ToolCall item (same
\* name, same parsed arguments) as the unfragmented frame does, and the
\* fragment frames without finish reason produce no error item.
C18_FragmentedToolCallAssembled ==
    (s_kind = "ChatStream" /\ IsFragmentedToolCall) =>
        /\ spc = "polling"
        /\ \A k \in 1..Len(Items) : Items[k].kind # "Err"
        /\ es_next > Len(events) =>
              /\ Len(Items) >= 2
              /\ Items[1].kind = "ToolCall"
              /\ Items[1].name = ChatStreamItem(ToolCallData).name
              /\ Items[1].arguments = ChatStreamItem(ToolCallData).arguments
              /\ Items[2].kind = "End"

\* The poll returned an item (Ok or Err), not the end and not Pending.
IsItem(polled) == polled.kind \notin {"End", "Pending"}

\* No poll after position k returned an item.
EndedFrom(k) == \A j \in k..Len(yielded) : ~IsItem(yielded[j])

\* C19 as stated: once a frame [DONE] has been received, the stream reports
\* its end and yields no item any more, whatever the event source delivers
\* later and however often the consumer polls.  (The k-th poll of a
\* ChatStream receives the k-th event.)
C19_NoItemAfterDone ==
    /\ s_kind = "ChatStream" =>
          \A k \in 1..Len(yielded) :
              (k <= Len(events) /\ IsDone(events[k]))
                  => (yielded[k].kind = "End" /\ EndedFrom(k))
    /\ s_kind = "stream" =>
          \A k \in 1..Len(yielded) :
              yielded[k].kind = "End" => EndedFrom(k)

\* C19 amended: the poll of a ChatStream that receives [DONE] reports the
\* end, and so does every later poll when the event source delivers nothing
\* after [DONE]; in stream() the task stops reading at the first [DONE] and
\* closes the event source, so the consumer gets at most the items of the
\* frames before it and, once the end was reported, only the end.
C19_DoneEndsStream ==
    /\ s_kind = "ChatStream" =>
          \A k \in 1..Len(yielded) :
              (k <= Len(events) /\ IsDone(events[k]))
                  => /\ yielded[k].kind = "End"
                     /\ k = Len(events) => EndedFrom(k)
    /\ s_kind = "stream" =>
          /\ \A d \in 1..Len(events) :
                (IsDone(events[d]) /\ d < es_next)
                    => /\ es_next = d + 1
                       /\ task = "finished"
                       /\ es_closed
                       /\ Len(SelectSeq(yielded, IsItem)) + Len(channel)
                             <= d - 1
          /\ \A k \in 1..Len(yielded) :
                yielded[k].kind = "End" => EndedFrom(k)

\* In stream() a text frame follows [DONE]; the consumer got the item of the
\* frame before [DONE] and then the end, twice.
C19_Witness ==
    /\ s_kind = "stream"
    /\ Len(events) = 3
    /\ IsText(events[1]) /\ IsDone(events[2]) /\ IsText(events[3])
    /\ Len(yielded) = 3
    /\ yielded[1].kind = "Response"
    /\ yielded[2].kind = "End"
    /\ yielded[3].kind = "End"

\* The event is the transport condition Err(Error::StreamEnded).
IsStreamEnded(ev) == ev.type = "Err" /\ ev.error = "StreamEnded"

\* The item is an error item made from the 'stream ended' condition.
IsStreamEndedItem(polled) ==
    polled.kind = "Err" /\ polled.error = "StreamEnded"

\* C20: a 'stream ended' condition of the transport ends the streamed
\* sequence as a normal end, in the ChatStream and in stream(): the sequence
\* is over, and no error item for it is handed or queued to the consumer.
C20_StreamEndedIsNormalEnd ==
    /\ \A k \in 1..Len(yielded) : ~IsStreamEndedItem(yielded[k])
    /\ \A k \in 1..Len(channel) : ~IsStreamEndedItem(channel[k])
    /\ s_kind = "ChatStream" =>
          \A k \in 1..Len(yielded) :
              (k <= Len(events) /\ IsStreamEnded(events[k]))
                  => yielded[k].kind = "End"
    /\ s_kind = "stream" =>
          \A d \in 1..Len(events) :
              (IsStreamEnded(events[d]) /\ d < es_next /\ ~rx_dropped)
                  => task = "finished"

\* The event is a fault other than 'stream ended': another error of the
\* event source, or a message whose payload does not decode.
IsFault(ev) ==
    \/ ev.type = "Err" /\ ev.error # "StreamEnded"
    \/ ev.type = "Message" /\ ev.data.data = "invalid"

\* The item reports such a fault.
IsFaultItem(polled) == polled.kind = "Err" /\ polled.error # "StreamEnded"

\* The events the event source has handed out so far.
Consumed == SubSeq(events, 1, es_next - 1)

\* The items stream() has handed to its consumer or queued for it, in order.
Handed == SelectSeq(yielded, IsItem) \o channel

\* The event is a message whose payload decodes to a response.
IsChunk(ev) == ev.type = "Message" /\ ev.data.data = "chunk"

IsResponse(polled) == polled.kind = "Response"

\* C21: a fault other than 'stream ended' yields exactly one error item and
\* does not end the sequence: the poll of a ChatStream that receives the
\* fault returns an error item and the polls after it return the items of
\* the frames after it; the task of stream() queues one error item per fault
\* and one response per decoded frame and goes on reading.
C21_FaultYieldsOneErrorItem ==
    /\ s_kind = "ChatStream" =>
          \A k \in 1..Min(Len(yielded), Len(events)) :
              /\ IsFault(events[k]) =>
                    (yielded[k].kind = "Err" /\ yielded[k].error # "")
              /\ IsText(events[k]) =>
                    /\ yielded[k].kind = "Generate"
                    /\ yielded[k].generation
                          = events[k].data.choices[1].content[1]
    /\ (s_kind = "stream" /\ ~rx_dropped) =>
          /\ Len(SelectSeq(Handed, IsFaultItem))
                = Len(SelectSeq(Consumed, IsFault))
          /\ Len(SelectSeq(Handed, IsResponse))
                = Len(SelectSeq(Consumed, IsChunk))
          /\ (/\ Consumed # <<>>
              /\ IsFault(Consumed[Len(Consumed)])
              /\ es_next <= Len(events))
                => task = "running"

\* A ChatStream got a payload that does not decode, then a text frame, then
\* [DONE].
C21_Witness ==
    /\ s_kind = "ChatStream"
    /\ Len(events) = 3
    /\ events[1] = MessageEvent(InvalidData)
    /\ IsText(events[2])
    /\ IsDone(events[3])
    /\ Len(yielded) = 3
    /\ yielded[1].kind = "Err"
    /\ yielded[2].kind = "Generate"
    /\ yielded[3].kind = "End"

\* The event is a message frame whose first choice finishes with reason
\* tool_calls and whose first tool call has an identifier, a name and an
\* argument string.
IsToolCallFrame(ev) ==
    /\ IsChunk(ev)
    /\ ev.data.choices # <<>>
    /\ ev.data.choices[1].finish_reason = "tool_calls"
    /\ ev.data.choices[1].tool_calls # <<>>
    /\ ev.data.choices[1].tool_calls[1] # <<>>
    /\ ev.data.choices[1].tool_calls[1][1].id # <<>>
    /\ ev.data.choices[1].tool_calls[1][1].name # <<>>
    /\ ev.data.choices[1].tool_calls[1][1].arguments # <<>>

\* C22: a frame whose first choice finishes with reason tool_calls makes
\* the ChatStream yield one ToolCall item whose id, name and arguments are
\* the identifier, the function name and the parsed argument string of the
\* frame's first tool call, and whose assistant message carries the frame's
\* tool_calls payload.
C22_ToolCallItemOfFrame ==
    s_kind = "ChatStream" =>
        \A k \in 1..Min(Len(yielded), Len(events)) :
            (IsToolCallFrame(events[k])
             /\ events[k].data.choices[1].tool_calls[1][1].arguments[1]
                   = ArgumentsWhole)
            => LET call == events[k].data.choices[1].tool_calls[1][1]
               IN  /\ yielded[k].kind = "ToolCall"
                   /\ yielded[k].id = call.id[1]
                   /\ yielded[k].name = call.name[1]
                   /\ yielded[k].arguments = <<"\"location\"", "\"Tokyo\"">>
                   /\ yielded[k].tool_calls
                         = events[k].data.choices[1].tool_calls

\* The event makes the task of stream() send an item.
YieldsItem(ev) == ev.type = "Err" \/ (ev.type = "Message" /\ ~IsDone(ev))

\* The item of stream() is the one the event gives: the decoded response of
\* a frame, the decoding error, or the error of the event source.
IsItemOf(polled, ev) ==
    CASE IsChunk(ev) -> polled.kind = "Response" /\ polled.response = ev.data
      [] ev.type = "Message" -> polled.kind = "Err" /\ polled.error = "serde_json"
      [] OTHER -> polled.kind = "Err" /\ polled.error = ev.error

\* C23: in stream() the consumer receives the items in the order of the
\* frames that produced them, none lost and none duplicated, however the
\* steps of the task and of the consumer interleave: the items received,
\* followed by those still queued, are at every moment the items of the
\* events read so far, one per event, in order; after the task has
\* finished and the queue is drained the consumer has them all.
C23_ItemsInFrameOrder ==
    s_kind = "stream" =>
        LET sources == SelectSeq(Consumed, YieldsItem)
            received == SelectSeq(yielded, IsItem)
        IN  /\ Len(received) <= Len(sources)
            /\ \A k \in 1..Len(received) : IsItemOf(received[k], sources[k])
            /\ ~rx_dropped =>
                  /\ Len(Handed) = Len(sources)
                  /\ \A k \in 1..Len(Handed) : IsItemOf(Handed[k], sources[k])
            /\ \A k \in 1..Len(yielded) :
                  yielded[k].kind = "End"
                      => (task = "finished" /\ Len(received) = Len(sources))

\* The task has queued two different items while the consumer had taken
\* one.
C23_Witness ==
    /\ s_kind = "stream"
    /\ Len(SelectSeq(yielded, IsItem)) = 1
    /\ Len(channel) = 2
    /\ channel[1] # channel[2]
    /\ yielded[1] # channel[1]

\* C24 as stated: whenever the consumer abandons the stream - drops it or
\* just stops polling - the upstream connection is eventually closed, and
\* the task of stream() closes the event source on every way out.
C24_AbandonedStreamClosed ==
    /\ <>es_closed
    /\ [](task = "finished" => es_closed)

\* C24 amended: a ChatStream's connection is closed when the ChatStream is
\* dropped (not when the consumer just stops polling); the task of stream()
\* closes the event source on every way out of its loop, and it does get
\* out - whatever the consumer does - once the event source has delivered
\* [DONE], its end, or, after the receiver was dropped, an event to send.
C24_ClosedOnDropOrExit ==
    /\ []((s_kind = "ChatStream" /\ rx_dropped) => es_closed)
    /\ [](task = "finished" => es_closed)
    /\ (s_kind = "stream") ~> es_closed

\* The task of stream() left its loop because the receiver was dropped,
\* before the event source was exhausted.
C24_Witness ==
    /\ s_kind = "stream"
    /\ rx_dropped
    /\ task = "finished"
    /\ es_closed
    /\ es_next <= Len(events)
    /\ ~IsDone(events[es_next - 1])

\* C25: for text frames that carry only a content fragment (no finish
\* reason) followed by [DONE], invoke_stream_one_result returns a Generate
\* whose text is the concatenation of the fragments in arrival order.
C25_OneResultConcatenates ==
    (s_kind = "one_result" /\ IsTextScript) =>
        /\ spc # "panicked"
        /\ spc = "returned" =>
              generation
                = Concat([k \in 1..(Len(Delivered) - 1) |->
                            Delivered[k].data.choices[1].content[1]])

(***************************************************************************)
(* Properties of the non-streaming provider call and of request building   *)
(***************************************************************************)
\* generate returned Ok
GenerateSucceeded ==
    /\ lpc = "returned"
    /\ llm_result.kind \in {"Generate", "ToolCall"}

FirstChoice == http_response.body.choices[1]

HasFirstChoice == http_response.body.choices # <<>>

\* C26: a successful non-streaming call returns exactly one variant: a
\* ToolCall with the id, the name and the parsed arguments of the first tool
\* call exactly when the finish reason of the first choice is tool_calls,
\* otherwise a Generate with the content of the first choice; a ToolCall
\* carries no generated text and a Generate no tool call.
C26_OneVariantByFinishReason ==
    GenerateSucceeded =>
        /\ llm_result.kind = "ToolCall"
             <=> (HasFirstChoice /\ FirstChoice.finish_reason = "tool_calls")
        /\ llm_result.kind = "ToolCall" =>
             /\ llm_result.id = FirstChoice.tool_calls[1][1].id
             /\ llm_result.name = FirstChoice.tool_calls[1][1].name
             /\ llm_result.arguments
                  = ParseArguments(FirstChoice.tool_calls[1][1].arguments).value
             /\ llm_result.generation = ""
        /\ llm_result.kind = "Generate" =>
             /\ llm_result.name = "" /\ llm_result.id = ""
             /\ llm_result.arguments = <<>>
             /\ llm_result.tool_calls = <<>>
             /\ (HasFirstChoice /\ FirstChoice.content # <<>>)
                  => llm_result.generation = FirstChoice.content[1]

\* A response with two tool calls and content was answered with the first
\* tool call.
C26_Witness ==
    /\ GenerateSucceeded
    /\ llm_result.kind = "ToolCall"
    /\ Len(FirstChoice.tool_calls[1]) = 2
    /\ FirstChoice.content # <<>>
    /\ llm_result.name = "get_time"
    /\ llm_result.id = "call_def456"

\* The exchange met a transport, decode or protocol fault: the request
\* failed, the status is not a success, the body is not JSON of the response
\* schema, the first choice has no finish reason, a tool_calls finish has no
\* tool call or arguments that are not JSON, or there is neither content
\* nor tool call.
IsCallFault ==
    \/ ~http_response.sent
    \/ http_response.status \notin 200..299
    \/ http_response.body.json # "ok"
    \/ /\ HasFirstChoice
       /\ \/ FirstChoice.finish_reason = "none"
          \/ /\ FirstChoice.finish_reason = "tool_calls"
             /\ \/ FirstChoice.tool_calls = <<>>
                \/ FirstChoice.tool_calls[1] = <<>>
                \/ ~ParseArguments(
                       FirstChoice.tool_calls[1][1].arguments).ok
          \/ /\ FirstChoice.finish_reason # "tool_calls"
             /\ FirstChoice.content = <<>>
             /\ FirstChoice.tool_calls = <<>>

\* C27: every transport, decode or protocol fault of a non-streaming call
\* makes generate return an error value: the call neither panics nor returns
\* a successful result.
C27_FaultReturnsError ==
    (lpc \in {"returned", "panicked"} /\ IsCallFault)
        => (lpc = "returned" /\ llm_result.kind = "Err")

\* A request was built and posted
RequestBuilt == lpc \in {"await_response", "streaming", "returned", "panicked"}

RoleOfType ==
    {<<"system", "system">>, <<"human", "user">>, <<"ai", "assistant">>,
     <<"tool", "tool">>}

\* C28: the messages of a provider request have the length and the order of
\* the Messages value they were built from; each entry carries the content,
\* the tool_calls payload and, as tool_call_id, the identifier of its source
\* message, with the role mapped system to system, human to user, AI to
\* assistant and tool to tool.
C28_RequestMessagesMirrorMessages ==
    RequestBuilt =>
        /\ Len(gemini_request.messages) = Len(call_messages.messages)
        /\ \A i \in 1..Len(call_messages.messages) :
              /\ gemini_request.messages[i].content
                   = call_messages.messages[i].content
              /\ gemini_request.messages[i].tool_calls
                   = call_messages.messages[i].tool_calls
              /\ gemini_request.messages[i].tool_call_id
                   = call_messages.messages[i].id
              /\ <<call_messages.messages[i].message_type,
                   gemini_request.messages[i].role>> \in RoleOfType

\* A request was built from an AI message with a tool call followed by the
\* tool message that answers it.
C28_Witness ==
    /\ RequestBuilt
    /\ Len(gemini_request.messages) = 2
    /\ gemini_request.messages[1].role = "assistant"
    /\ gemini_request.messages[1].tool_calls # <<>>
    /\ gemini_request.messages[2].role = "tool"
    /\ gemini_request.messages[2].tool_call_id = "call_abc123"

\* C29: a provider request has the tools list and tool_choice "auto" exactly
\* when the Messages value has at least one tool, and neither when it has
\* none; its stream flag is true exactly when it is a streaming request and
\* absent when it is not.
C29_ToolsAndStreamFields ==
    RequestBuilt =>
        /\ IF call_messages.tools # <<>>
           THEN /\ gemini_request.tools = <<call_messages.tools>>
                /\ gemini_request.tool_choice = <<"auto">>
           ELSE /\ gemini_request.tools = <<>>
                /\ gemini_request.tool_choice = <<>>
        /\ IF lpc = "streaming"
           THEN gemini_request.stream = <<TRUE>>
           ELSE gemini_request.stream = <<>>

\* A non-streaming request was built from a Messages value without tools.
C29_Witness ==
    /\ lpc = "await_response"
    /\ call_messages.tools = <<>>
    /\ call_messages.messages # <<>>
    /\ gemini_request.messages # <<>>
    /\ gemini_request.tools = <<>>

(***************************************************************************)
(* Properties of the action stream of an agent                             *)
(***************************************************************************)
\* C30: whatever the user asks and whatever the provider answers, the first
\* item of the stream of LLMAgent::start(messages) is Request with the text
\* the user asks in messages, and its second item is Response with the text
\* the provider answers.
C30_StartYieldsRequestThenResponse ==
    /\ Len(stream_actions) >= 1 =>
         stream_actions[1]
           = AgentAction("Request", start_messages.messages[1].content)
    /\ Len(stream_actions) >= 2 =>
         stream_actions[2] = AgentAction("Response", provider_response)

(***************************************************************************)
(* Further properties of the agent                                         *)
(***************************************************************************)
\* C31: an agent can be built without a system prompt: build succeeds when
\* with_system_prompt was never called, and no request of the resulting
\* agent has a system message.
C31_BuildsWithoutSystemPrompt ==
    /\ apc # "build_panicked"
    /\ (apc # "builder" /\ builder_system_prompt = "none") =>
          \A i \in 1..Len(sent) :
             \A j \in 1..Len(sent[i].messages) :
                sent[i].messages[j].message_type # "system"

(***************************************************************************)
(* Further properties of the response streams                              *)
(***************************************************************************)
IsOpen(ev) == ev.type = "Open"

IsPending(polled) == polled.kind = "Pending"

\* C32: an Open event never produces an item: the items a stream yields
\* are, in order, those of its events with the Open events removed; and
\* the stream does not stall on an Open event: a ChatStream that returned
\* Pending for it is polled again, the task of stream() reads on while the
\* event source has events.
C32_OpenEventsYieldNothing ==
    /\ s_kind = "ChatStream" =>
          /\ \A k \in 1..Len(Items) :
                Items[k] = IF k <= Len(Delivered)
                           THEN ChatStreamPoll(Delivered[k])
                           ELSE StreamEnd
          /\ Len(SelectSeq(yielded, IsPending))
                = Len(SelectSeq(Consumed, IsOpen))
          /\ spc # "parked"
    /\ s_kind = "stream" =>
          /\ \A k \in 1..Len(yielded) : ~IsPending(yielded[k])
          /\ LET sources == SelectSeq(Delivered, YieldsItem)
                 received == SelectSeq(yielded, IsItem)
             IN  /\ Len(received) <= Len(sources)
                 /\ \A k \in 1..Len(received) :
                       IsItemOf(received[k], sources[k])
          /\ (/\ Consumed # <<>>
              /\ IsOpen(Consumed[Len(Consumed)])
              /\ es_next <= Len(events))
                => task = "running"

\* A ChatStream returned Pending for an Open event, then the item of the
\* text frame after it, then Pending for a second Open event.
C32_Witness ==
    /\ s_kind = "ChatStream"
    /\ Len(yielded) = 3
    /\ IsPending(yielded[1])
    /\ yielded[2].kind = "Generate"
    /\ IsPending(yielded[3])
    /\ Len(Items) = 1

\* The event is a decoded frame without choices.
IsNoChoicesFrame(ev) == IsChunk(ev) /\ ev.data.choices = <<>>

\* The event is a decoded frame whose first choice has neither a text
\* fragment nor the finish reason tool_calls.
IsNoContentFrame(ev) ==
    /\ IsChunk(ev)
    /\ ev.data.choices # <<>>
    /\ ev.data.choices[1].content = <<>>
    /\ ev.data.choices[1].finish_reason # "tool_calls"

\* C33: in a ChatStream a decoded frame whose first choice has neither a
\* text fragment nor a tool-call finish reason yields the error item "No
\* content in response", a decoded frame without choices the error item "No
\* choices in response", and the sequence goes on: the text frame after it
\* yields its fragment.
C33_EmptyFrameYieldsErrorItem ==
    s_kind = "ChatStream" =>
        \A k \in 1..Min(Len(Items), Len(Delivered)) :
            /\ IsNoContentFrame(Delivered[k]) =>
                  /\ Items[k].kind = "Err"
                  /\ Items[k].error = "No content in response"
            /\ IsNoChoicesFrame(Delivered[k]) =>
                  /\ Items[k].kind = "Err"
                  /\ Items[k].error = "No choices in response"
            /\ (/\ IsNoContentFrame(Delivered[k])
                   \/ IsNoChoicesFrame(Delivered[k])
                /\ k < Min(Len(Items), Len(Delivered))
                /\ IsText(Delivered[k + 1])) =>
                  /\ Items[k + 1].kind = "Generate"
                  /\ Items[k + 1].generation
                        = Delivered[k + 1].data.choices[1].content[1]

\* The closing frame came first and gave the error item, the frame without
\* choices after it gave the other error item, and the text frame after
\* them gave its fragment.
C33_Witness ==
    /\ s_kind = "ChatStream"
    /\ Len(events) = 3
    /\ events[1] = MessageEvent(ClosingData)
    /\ events[2] = MessageEvent(NoChoicesData)
    /\ Len(yielded) = 3
    /\ yielded[1].error = "No content in response"
    /\ yielded[2].error = "No choices in response"
    /\ yielded[3].kind = "Generate"

(***************************************************************************)
(* Further properties of the graph executor                                *)
(***************************************************************************)
\* The edge taken after the k-th node run leads back to that node.
TookSelfLoop(k) == took[k] # 0 /\ edges[took[k]].target = ran[k]

\* C34: when the edge taken from a node has the node itself as target, run
\* halts: it returns the state the node left and does not run the node
\* again.
C34_SelfLoopHalts ==
    \A k \in 1..Len(took) :
        TookSelfLoop(k) =>
            /\ k = Len(took)
            /\ Len(ran) = k
            /\ gpc = "done"
            /\ current_node = ran[k]
            /\ current_state = left[k]

\* run returned at a node that has a way on to the end node, after taking
\* the node's Conditional edge to itself on a true predicate.
C34_Witness ==
    /\ gpc = "done"
    /\ TookSelfLoop(Len(took))
    /\ edges[LastTook].type = "ConditionalEdge"
    /\ Holds(edges[LastTook].condition, LastLeft)
    /\ \E i \in Outgoing(LastRan) : edges[i].target \in EndIndices

\* run was called
RunCalled == gpc # "build"

OneBeginOneEnd ==
    Cardinality(BeginIndices) = 1 /\ Cardinality(EndIndices) = 1

\* Every node has an incoming and an outgoing edge.
AllOnCycles ==
    /\ nodes # <<>>
    /\ \A n \in NodeIndices : Incoming(n) # {} /\ Outgoing(n) # {}

\* C35: run panics before it runs any node unless exactly one node has no
\* incoming edge and exactly one node has no outgoing edge; so a graph whose
\* nodes all lie on cycles and a graph of several unconnected nodes cannot
\* be run, and no node sees the state run was called with.
C35_RunNeedsOneBeginOneEnd ==
    RunCalled =>
        /\ gpc = "panicked" <=> ~OneBeginOneEnd
        /\ gpc = "panicked" =>
              /\ ran = <<>>
              /\ left = <<>>
              /\ took = <<>>
              /\ current_state = NoState
        /\ AllOnCycles => gpc = "panicked"
        /\ (Len(nodes) >= 2 /\ edges = <<>>) => gpc = "panicked"

\* run panicked on two nodes with an edge each way.
C35_Witness ==
    /\ gpc = "panicked"
    /\ Len(nodes) = 2
    /\ \E i \in Outgoing(1), j \in Outgoing(2) :
          edges[i].target = 2 /\ edges[j].target = 1
    /\ AllOnCycles
    /\ input_state # NoState

\* chat / invoke is waiting for the provider or for a tool
InCall == apc \in {"await_llm_1", "await_tool", "await_llm_2"}

\* C36: chat and invoke make at most two provider calls and at most one
\* tool invocation and, when every provider call and tool call returns,
\* return themselves; a tool call that answers the second provider call is
\* recorded as the response of the second conversation and no tool is
\* invoked for it.
C36_AtMostTwoProviderCalls ==
    /\ [](/\ Len(sent) <= 2
          /\ Len(tool_invocations) <= 1
          /\ Len(tool_results) <= 1
          /\ (HasReturned /\ Len(sent) = 2 /\ apc = "returned_ok") =>
                /\ Len(conversations) = 2
                /\ conversations[2].response = script[2]
                /\ Len(tool_invocations) = 1)
    /\ InCall ~> HasReturned

\* A call returned after the provider answered both the first and the
\* second request with a call of a registered tool.
C36_Witness ==
    /\ apc = "returned_ok"
    /\ Len(conversations) = 2
    /\ conversations[1].response.kind = "ToolCall"
    /\ conversations[2].response.kind = "ToolCall"
    /\ conversations[2].response.name \in tools
    /\ Len(tool_invocations) = 1

\* chat(x) was called, or invoke with a Messages value holding the single
\* human message x.
SingleTextCall == op # "none" /\ Len(user_input) = 1

\* The tool lists a request of the agent may carry.
ToolLists ==
    {[i \in 1..Len(o) |-> to_openai_tool(o[i])] : o \in Orderings(tools)}

\* The provider's first answer asks for a registered tool.
FirstCallsTool ==
    /\ conversations # <<>>
    /\ script[1].kind = "ToolCall"
    /\ script[1].name \in tools

StateSoFar == IF left = <<>> THEN input_state ELSE LastLeft

\* C38: during run only the running node changes the state: each node is
\* handed the state the node before it left (the argument of run for the
\* first one), scanning the edges and evaluating their predicates leaves
\* the state as it is, and run leaves the nodes and the edges of the graph
\* as they are.
C38_OnlyNodesChangeState ==
    [][/\ gpc \in {"node_run", "scan", "done"} =>
             /\ current_state = StateSoFar
             /\ nodes' = nodes
             /\ edges' = edges
       /\ gpc = "node_run" =>
             /\ left' = Append(left, NodeRun(nodes[current_node], StateSoFar))
             /\ current_state' = NodeRun(nodes[current_node], StateSoFar)
       /\ gpc = "scan" =>
             /\ current_state' = current_state
             /\ left' = left]_gvars

\* run returned after three nodes, the second of which changed the state
\* and had a Conditional edge whose predicate was evaluated and false.
C38_Witness ==
    /\ gpc = "done"
    /\ Len(ran) = 3
    /\ left[2] # left[1]
    /\ current_state = left[3]
    /\ \E i \in Outgoing(ran[2]) :
          /\ edges[i].type = "ConditionalEdge"
          /\ ~Holds(edges[i].condition, left[2])
          /\ i > took[2]

(***************************************************************************)
(* Further properties of invoke_stream_one_result                          *)
(***************************************************************************)
\* The events before the first [DONE].
RECURSIVE BeforeDone(_)
BeforeDone(evs) ==
    IF evs = <<>> \/ IsDone(Head(evs))
    THEN <<>>
    ELSE <<Head(evs)>> \o BeforeDone(Tail(evs))

\* The text fragment a frame contributes: that of its first choice unless
\* the frame finishes with tool_calls, has no content or is no decoded
\* frame.
FragmentOf(ev) ==
    IF /\ IsChunk(ev)
       /\ ev.data.choices # <<>>
       /\ ev.data.choices[1].finish_reason # "tool_calls"
       /\ ev.data.choices[1].content # <<>>
    THEN ev.data.choices[1].content[1]
    ELSE <<>>

\* C39: invoke_stream_one_result never reports a fault of the stream: it
\* skips error items, takes nothing from frames finishing with tool_calls,
\* and returns a Generate whose text is the concatenation of the fragments
\* of the other frames, the empty text when there are none.
C39_OneResultAlwaysGenerates ==
    s_kind = "one_result" =>
        /\ spc # "panicked"
        /\ spc = "returned" =>
              generation
                = Concat([k \in 1..Len(BeforeDone(events)) |->
                            FragmentOf(BeforeDone(events)[k])])

====
